---- MODULE Spec2Model ----
(***************************************************************************)
(* A model of the NES emulator core: the CPU (src/src/cpu.rs), its bus     *)
(* (src/src/bus.rs) and the Memory trait (src/src/cpu/memory.rs).          *)
(*                                                                         *)
(* Arrays are held as finite maps of the cells that differ from their      *)
(* initial content: cpu_vram is [0; 2048], so a cell that is absent from   *)
(* the map holds 0.  A panic ends the process: once `panic` is set no      *)
(* operation is enabled any more.                                          *)
(***************************************************************************)
EXTENDS Integers, Sequences, FiniteSets, TLC

\* ------------------------------------------------------------------ bounds
\* the number of operations a caller performs on one CPU instance
MaxSteps == 2

\* the number of instructions one call of run_callback fetches
MaxInstr == 6

\* --------------------------------------------------------------- constants
RAM == 0
RAM_MIRRORS_END == 8191
PPU_REGISTERS == 8192
PPU_REGISTERS_MIRRORS_END == 16383
STACK_OFFSET == 256
STACK_RESET == 253

NoPanic == ""

\* ---------------------------------------------------------- bit arithmetic
RECURSIVE BitAnd(_, _)
BitAnd(x, y) ==
    IF x = 0 \/ y = 0 THEN 0
    ELSE (x % 2) * (y % 2) + 2 * BitAnd(x \div 2, y \div 2)

RECURSIVE BitOr(_, _)
BitOr(x, y) ==
    IF x = 0 THEN y
    ELSE IF y = 0 THEN x
    ELSE (IF x % 2 = 1 \/ y % 2 = 1 THEN 1 ELSE 0) + 2 * BitOr(x \div 2, y \div 2)

RECURSIVE BitXor(_, _)
BitXor(x, y) ==
    IF x = 0 THEN y
    ELSE IF y = 0 THEN x
    ELSE ((x + y) % 2) + 2 * BitXor(x \div 2, y \div 2)

\* ------------------------------------------------------------------ arrays
\* the byte of cell i of an array whose unwritten cells hold 0
Cell(arr, i) == IF i \in DOMAIN arr THEN arr[i] ELSE 0

\* arr[i] = v
Store(arr, i, v) == [j \in (DOMAIN arr) \cup {i} |-> IF j = i THEN v ELSE arr[j]]

\* the array with no cell written
Zeroed == [j \in {} |-> 0]

\* ------------------------------------------------------------------- state
VARIABLES
    register_a,        \* CPU.register_a : u8
    register_x,        \* CPU.register_x : u8
    register_y,        \* CPU.register_y : u8
    stack_pointer,     \* CPU.stack_pointer : u8
    program_counter,   \* CPU.program_counter : u16
    status_register,   \* CPU.status_register : CpuFlags (its bits)
    memory,            \* the array CPU::load copies the program into
    cpu_vram,          \* BUS.cpu_vram : [u8; 2048]
    prg_rom,           \* BUS.rom.prg_rom : the program image
    panic,             \* the message of the panic that ended the process, or ""
    stdout,            \* the addresses and bytes reported by println!
    running,           \* TRUE while control is inside the loop of run_callback
    overflow_checks,   \* the build checks integer overflow (debug profile)
    fetches,           \* the opcode bytes the current run_callback has fetched
    observed,          \* what the callback of run_callback saw at each call
    ppu,               \* the PPU: its registers, VRAM, OAM and palette
    last,              \* the last operation the caller performed and its result
    steps              \* the number of operations performed

vars == <<register_a, register_x, register_y, stack_pointer, program_counter,
          status_register, memory, cpu_vram, prg_rom, panic, stdout, running,
          overflow_checks, fetches, observed, ppu, last, steps>>

\* the machine as one record, so that operations compose
Cur ==
    [register_a |-> register_a, register_x |-> register_x,
     register_y |-> register_y, stack_pointer |-> stack_pointer,
     program_counter |-> program_counter, status_register |-> status_register,
     memory |-> memory, cpu_vram |-> cpu_vram, prg_rom |-> prg_rom,
     panic |-> panic, stdout |-> stdout, running |-> running,
     overflow_checks |-> overflow_checks, fetches |-> fetches,
     observed |-> observed, ppu |-> ppu]

\* the process has not panicked
Live(m) == m.panic = NoPanic

\* panic!(msg): the first panic ends the process, nothing after it runs
Panic(m, msg) == IF Live(m) THEN [m EXCEPT !.panic = msg] ELSE m

\* an assignment `m2` that is reached only if nothing before it panicked
Then(m, m2) == IF Live(m) THEN m2 ELSE m

\* println!(line)
Println(m, line) == Then(m, [m EXCEPT !.stdout = Append(@, line)])

\* ---------------------------------------------------------------- the ROM
\* The program image is an input of BUS::new.  An image is its length and
\* its bytes: the bytes listed in `bytes`, and the filler byte elsewhere.
RomFill(fill, i) == (fill + (i % 251) + 3 * (i \div 256)) % 256

RomByte(rom, i) == IF i \in DOMAIN rom.bytes THEN rom.bytes[i] ELSE RomFill(rom.fill, i)

\* ---------------------------------------------------------------- bus.rs
\* read_prg_rom without the fold of a 16 KiB image
read_prg_rom_unfolded(m, addr) ==
    LET a0 == addr - 32768
    IN  IF a0 < m.prg_rom.len
        THEN [m |-> m, val |-> RomByte(m.prg_rom, a0)]
        ELSE [m |-> Panic(m, "index out of bounds"), val |-> 0]

\* BUS::read_prg_rom
read_prg_rom(m, addr) ==
    LET a0 == addr - 32768
        a1 == IF m.prg_rom.len = 16384 /\ a0 >= 16384 THEN a0 % 16384 ELSE a0
    IN  IF a1 < m.prg_rom.len
        THEN [m |-> m, val |-> RomByte(m.prg_rom, a1)]
        ELSE [m |-> Panic(m, "index out of bounds"), val |-> 0]

\* m_read whose last arm returns the high byte of the address, not 0
BUS_m_read_open_bus(m, addr) ==
    IF ~Live(m) THEN [m |-> m, val |-> 0]
    ELSE IF addr >= RAM /\ addr <= RAM_MIRRORS_END THEN
        [m |-> m, val |-> Cell(m.cpu_vram, BitAnd(addr, 2047))]
    ELSE IF addr >= PPU_REGISTERS /\ addr <= PPU_REGISTERS_MIRRORS_END THEN
        [m |-> Panic(m, "not yet implemented: PPU registers not implemented yet"),
         val |-> 0]
    ELSE IF addr >= 32768 /\ addr <= 65535 THEN
        read_prg_rom(m, addr)
    ELSE
        [m |-> Println(m, <<"Unimplemented memory read at address", addr>>),
         val |-> addr \div 256]

\* impl Memory for BUS: m_read
BUS_m_read(m, addr) ==
    IF ~Live(m) THEN [m |-> m, val |-> 0]
    ELSE IF addr >= RAM /\ addr <= RAM_MIRRORS_END THEN
        LET mirror_down_addr == BitAnd(addr, 2047)
        IN  [m |-> m, val |-> Cell(m.cpu_vram, mirror_down_addr)]
    ELSE IF addr >= PPU_REGISTERS /\ addr <= PPU_REGISTERS_MIRRORS_END THEN
        [m |-> Panic(m, "not yet implemented: PPU registers not implemented yet"),
         val |-> 0]
    ELSE IF addr >= 32768 /\ addr <= 65535 THEN
        read_prg_rom(m, addr)
    ELSE
        [m |-> Println(m, <<"Unimplemented memory read at address", addr>>),
         val |-> 0]

\* m_write that masks a RAM address to 12 bits, not 11
BUS_m_write_mask12(m, addr, data) ==
    IF ~Live(m) THEN m
    ELSE IF addr >= RAM /\ addr <= RAM_MIRRORS_END THEN
        [m EXCEPT !.cpu_vram = Store(@, BitAnd(addr, 4095), data)]
    ELSE IF addr >= PPU_REGISTERS /\ addr <= PPU_REGISTERS_MIRRORS_END THEN
        Panic(m, "not yet implemented: PPU registers not implemented yet")
    ELSE IF addr >= 32768 /\ addr <= 65535 THEN
        Panic(m, "Attempted to write to ROM space")
    ELSE
        Println(m, <<"Unimplemented memory write at address", addr>>)

\* m_write that stores into the program image
BUS_m_write_rom_writable(m, addr, data) ==
    IF ~Live(m) THEN m
    ELSE IF addr >= RAM /\ addr <= RAM_MIRRORS_END THEN
        [m EXCEPT !.cpu_vram = Store(@, BitAnd(addr, 2047), data)]
    ELSE IF addr >= PPU_REGISTERS /\ addr <= PPU_REGISTERS_MIRRORS_END THEN
        Panic(m, "not yet implemented: PPU registers not implemented yet")
    ELSE IF addr >= 32768 /\ addr <= 65535 THEN
        [m EXCEPT !.prg_rom.bytes = Store(@, (addr - 32768) % m.prg_rom.len, data)]
    ELSE
        Println(m, <<"Unimplemented memory write at address", addr>>)

\* impl Memory for BUS: m_write
BUS_m_write(m, addr, data) ==
    IF ~Live(m) THEN m
    ELSE IF addr >= RAM /\ addr <= RAM_MIRRORS_END THEN
        LET mirror_down_addr == BitAnd(addr, 2047)
        IN  [m EXCEPT !.cpu_vram = Store(@, mirror_down_addr, data)]
    ELSE IF addr >= PPU_REGISTERS /\ addr <= PPU_REGISTERS_MIRRORS_END THEN
        Panic(m, "not yet implemented: PPU registers not implemented yet")
    ELSE IF addr >= 32768 /\ addr <= 65535 THEN
        Panic(m, "Attempted to write to ROM space")
    ELSE
        Println(m, <<"Unimplemented memory write at address", addr>>)

\* ------------------------------------------------------------- memory.rs
\* `a + b` on a u16: a panic where the build checks overflow, a wrap where
\* it does not
AddU16(m, a, b) ==
    IF a + b > 65535
    THEN IF m.overflow_checks
         THEN [m |-> Panic(m, "attempt to add with overflow"), val |-> 0]
         ELSE [m |-> m, val |-> (a + b) % 65536]
    ELSE [m |-> m, val |-> a + b]

\* Memory::m_read_u16 (the provided method; BUS does not override it)
m_read_u16(m, addr) ==
    LET low  == BUS_m_read(m, addr)
        next == AddU16(low.m, addr, 1)
        high == BUS_m_read(next.m, next.val)
    IN  [m |-> high.m,
         val |-> IF Live(high.m) THEN BitOr((high.val * 256) % 65536, low.val) ELSE 0]

\* Memory::m_write_u16 (the provided method; BUS does not override it)
m_write_u16(m, addr, data) ==
    LET low  == BitAnd(data, 255)
        high == ((data \div 256) \div 256) % 256
        m1   == BUS_m_write(m, addr, low)
        next == AddU16(m1, addr, 1)
    IN  BUS_m_write(next.m, next.val, high)

\* impl Memory for CPU: every access goes to the bus
m_read(m, addr) == BUS_m_read(m, addr)

m_write(m, addr, data) == BUS_m_write(m, addr, data)

\* ---------------------------------------------------------------- cpu.rs
\* bitflags CpuFlags
CARRY == 1
ZERO == 2
INTERRUPT_DISABLE == 4
DECIMAL == 8
BREAK == 16
BREAK2 == 32
OVERFLOW == 64
NEGATIVE == 128

\* CpuFlags::contains / insert / remove on the flag bits
Contains(bits, flag) == BitAnd(bits, flag) = flag

Insert(bits, flag) == BitOr(bits, flag)

Remove(bits, flag) == BitAnd(bits, 255 - flag)

\* The opcode descriptors of opcodes::OPCODES_MAP: the addressing mode and the
\* length in bytes of every opcode the run loop has an arm for, listed by
\* addressing mode.
OPCODES_MAP ==
    LET ImmediateCodes ==
          { 9, 41, 73, 105, 160, 162, 169, 192, 201, 224, 233 }
        ZeroPageCodes ==
          { 5, 6, 36, 37, 38, 69, 70, 101, 102, 132, 133, 134, 164,
            165, 166, 196, 197, 198, 228, 229, 230 }
        ZeroPageXCodes ==
          { 21, 22, 53, 54, 85, 86, 117, 118, 148, 149, 180, 181, 213,
            214, 245, 246 }
        ZeroPageYCodes ==
          { 150, 182 }
        AbsoluteCodes ==
          { 13, 14, 32, 44, 45, 46, 76, 77, 78, 109, 110, 140, 141,
            142, 172, 173, 174, 204, 205, 206, 236, 237, 238 }
        AbsoluteXCodes ==
          { 29, 30, 61, 62, 93, 94, 125, 126, 157, 188, 189, 221, 222,
            253, 254 }
        AbsoluteYCodes ==
          { 25, 57, 89, 121, 153, 185, 190, 217, 249 }
        IndirectXCodes ==
          { 1, 33, 65, 97, 129, 161, 193, 225 }
        IndirectYCodes ==
          { 17, 49, 81, 113, 145, 177, 209, 241 }
        IndirectCodes ==
          { 108 }
        AccumulatorCodes ==
          { 10, 42, 74, 106 }
        RelativeCodes ==
          { 16, 48, 80, 112, 144, 176, 208, 240 }
        ImpliedCodes ==
          { 0, 8, 24, 40, 56, 64, 72, 88, 96, 104, 120, 136, 138, 152,
            154, 168, 170, 184, 186, 200, 202, 216, 232, 234, 248 }
    IN  [code \in UNION {ImmediateCodes, ZeroPageCodes, ZeroPageXCodes,
                         ZeroPageYCodes, AbsoluteCodes, AbsoluteXCodes,
                         AbsoluteYCodes, IndirectXCodes, IndirectYCodes,
                         IndirectCodes, AccumulatorCodes, RelativeCodes,
                         ImpliedCodes} |->
          CASE code \in ImmediateCodes   -> [mode |-> "Immediate",      bytes |-> 2]
            [] code \in ZeroPageCodes    -> [mode |-> "ZeroPage",       bytes |-> 2]
            [] code \in ZeroPageXCodes   -> [mode |-> "ZeroPageX",      bytes |-> 2]
            [] code \in ZeroPageYCodes   -> [mode |-> "ZeroPageY",      bytes |-> 2]
            [] code \in AbsoluteCodes    -> [mode |-> "Absolute",       bytes |-> 3]
            [] code \in AbsoluteXCodes   -> [mode |-> "AbsoluteX",      bytes |-> 3]
            [] code \in AbsoluteYCodes   -> [mode |-> "AbsoluteY",      bytes |-> 3]
            [] code \in IndirectXCodes   -> [mode |-> "IndirectX",      bytes |-> 2]
            [] code \in IndirectYCodes   -> [mode |-> "IndirectY",      bytes |-> 2]
            [] code \in IndirectCodes    -> [mode |-> "Indirect",       bytes |-> 3]
            [] code \in AccumulatorCodes -> [mode |-> "Accumulator",    bytes |-> 1]
            [] code \in RelativeCodes    -> [mode |-> "NoneAddressing", bytes |-> 2]
            [] code \in ImpliedCodes     -> [mode |-> "NoneAddressing", bytes |-> 1]]

\* get_op_addr that fetches the high byte of the IndirectY pointer without
\* wrapping in the zero page
get_op_addr_y_pointer_unwrapped(m, mode) ==
    IF mode = "Immediate" THEN [m |-> m, val |-> m.program_counter]
    ELSE IF mode = "ZeroPage" THEN m_read(m, m.program_counter)
    ELSE IF mode = "Absolute" THEN m_read_u16(m, m.program_counter)
    ELSE IF mode = "ZeroPageX" THEN
        LET addr == m_read(m, m.program_counter)
        IN  [m |-> addr.m, val |-> (addr.val + m.register_x) % 256]
    ELSE IF mode = "ZeroPageY" THEN
        LET addr == m_read(m, m.program_counter)
        IN  [m |-> addr.m, val |-> (addr.val + m.register_y) % 256]
    ELSE IF mode = "AbsoluteX" THEN
        LET addr == m_read_u16(m, m.program_counter)
        IN  [m |-> addr.m, val |-> (addr.val + m.register_x) % 65536]
    ELSE IF mode = "AbsoluteY" THEN
        LET addr == m_read_u16(m, m.program_counter)
        IN  [m |-> addr.m, val |-> (addr.val + m.register_y) % 65536]
    ELSE IF mode = "IndirectX" THEN
        LET addr == m_read(m, m.program_counter)
            p    == (addr.val + m.register_x) % 256
            l    == m_read(addr.m, p)
            h    == m_read(l.m, (p + 1) % 65536)
        IN  [m |-> h.m, val |-> BitOr(h.val * 256, l.val)]
    ELSE IF mode = "IndirectY" THEN
        LET addr  == m_read(m, m.program_counter)
            l     == m_read(addr.m, addr.val)
            h     == m_read(l.m, (addr.val + 1) % 65536)
            deref == BitOr(h.val * 256, l.val)
        IN  [m |-> h.m, val |-> (deref + m.register_y) % 65536]
    ELSE [m |-> Panic(m, "Invalid addressing mode, not supported"), val |-> 0]

\* CPU::get_op_addr
get_op_addr(m, mode) ==
    IF mode = "Immediate" THEN [m |-> m, val |-> m.program_counter]
    ELSE IF mode = "ZeroPage" THEN m_read(m, m.program_counter)
    ELSE IF mode = "Absolute" THEN m_read_u16(m, m.program_counter)
    ELSE IF mode = "ZeroPageX" THEN
        LET addr == m_read(m, m.program_counter)
        IN  [m |-> addr.m, val |-> (addr.val + m.register_x) % 256]
    ELSE IF mode = "ZeroPageY" THEN
        LET addr == m_read(m, m.program_counter)
        IN  [m |-> addr.m, val |-> (addr.val + m.register_y) % 256]
    ELSE IF mode = "AbsoluteX" THEN
        LET addr == m_read_u16(m, m.program_counter)
        IN  [m |-> addr.m, val |-> (addr.val + m.register_x) % 65536]
    ELSE IF mode = "AbsoluteY" THEN
        LET addr == m_read_u16(m, m.program_counter)
        IN  [m |-> addr.m, val |-> (addr.val + m.register_y) % 65536]
    ELSE IF mode = "IndirectX" THEN
        LET addr == m_read(m, m.program_counter)
            p    == (addr.val + m.register_x) % 256
            l    == m_read(addr.m, p)
            h    == m_read(l.m, (p + 1) % 65536)
        IN  [m |-> h.m, val |-> BitOr(h.val * 256, l.val)]
    ELSE IF mode = "IndirectY" THEN
        LET addr  == m_read(m, m.program_counter)
            l     == m_read(addr.m, addr.val)
            h     == m_read(l.m, (addr.val + 1) % 256)
            deref == BitOr(h.val * 256, l.val)
        IN  [m |-> h.m, val |-> (deref + m.register_y) % 65536]
    ELSE [m |-> Panic(m, "Invalid addressing mode, not supported"), val |-> 0]

\* CPU::set_zero_flag
set_zero_flag(m, value) ==
    Then(m, IF value = 0
            THEN [m EXCEPT !.status_register = Insert(@, ZERO)]
            ELSE [m EXCEPT !.status_register = Remove(@, ZERO)])

\* CPU::set_negative_flag
set_negative_flag(m, value) ==
    Then(m, IF value \div 128 = 1
            THEN [m EXCEPT !.status_register = Insert(@, NEGATIVE)]
            ELSE [m EXCEPT !.status_register = Remove(@, NEGATIVE)])

\* CPU::set_zero_and_negative_flag
set_zero_and_negative_flag(m, value) ==
    set_negative_flag(set_zero_flag(m, value), value)

\* CPU::set_reg_a
set_reg_a(m, data) ==
    LET m1 == Then(m, [m EXCEPT !.register_a = data])
    IN  set_zero_and_negative_flag(m1, m1.register_a)

\* CPU::lda
lda(m, mode) ==
    LET addr == get_op_addr(m, mode)
        data == m_read(addr.m, addr.val)
    IN  set_reg_a(data.m, data.val)

\* CPU::tax
tax(m) ==
    LET m1 == Then(m, [m EXCEPT !.register_x = m.register_a])
    IN  set_zero_and_negative_flag(m1, m1.register_x)

\* CPU::inx
inx(m) ==
    LET m1 == Then(m, [m EXCEPT !.register_x = (m.register_x + 1) % 256])
    IN  set_zero_and_negative_flag(m1, m1.register_x)

\* CPU::set_carry_flag
set_carry_flag(m, value) ==
    Then(m, IF value
            THEN [m EXCEPT !.status_register = Insert(@, CARRY)]
            ELSE [m EXCEPT !.status_register = Remove(@, CARRY)])

\* CPU::set_overflow_flag
set_overflow_flag(m, value) ==
    Then(m, IF value
            THEN [m EXCEPT !.status_register = Insert(@, OVERFLOW)]
            ELSE [m EXCEPT !.status_register = Remove(@, OVERFLOW)])

\* add_reg_a that ignores the carry flag it finds
add_reg_a_without_carry_in(m, data) ==
    LET result == m.register_a + data
        m1     == set_carry_flag(m, result > 255)
        m2     == set_overflow_flag(m1,
                    BitAnd(BitAnd(BitXor(data, result % 256),
                                  BitXor(result % 256, m1.register_a)), 128) # 0)
    IN  set_reg_a(m2, result % 256)

\* CPU::add_reg_a
add_reg_a(m, data) ==
    LET result == m.register_a + data
                    + (IF Contains(m.status_register, CARRY) THEN 1 ELSE 0)
        m1     == set_carry_flag(m, result > 255)
        m2     == set_overflow_flag(m1,
                    BitAnd(BitAnd(BitXor(data, result % 256),
                                  BitXor(result % 256, m1.register_a)), 128) # 0)
    IN  set_reg_a(m2, result % 256)

\* `x as i8 as u16`: the sign extension of a byte to 16 bits
SignExtend(x) == IF x >= 128 THEN 65280 + x ELSE x

\* CPU::branch
branch(m, condition) ==
    LET Jump(o) ==
            Then(o.m, [o.m EXCEPT !.program_counter =
                          (((m.program_counter + 1) % 65536) + SignExtend(o.val))
                              % 65536])
    IN  IF condition THEN Jump(m_read(m, m.program_counter)) ELSE m

\* CPU::pop_stack
pop_stack(m) ==
    LET m1 == Then(m, [m EXCEPT !.stack_pointer = (@ + 1) % 256])
    IN  m_read(m1, m1.stack_pointer)

\* CPU::pop_stack_u16
pop_stack_u16(m) ==
    LET Word(l, h) == [m |-> h.m, val |-> BitOr(h.val * 256, l.val)]
        High(l)    == Word(l, pop_stack(l.m))
    IN  High(pop_stack(m))

\* CPU::push_stack
push_stack(m, data) ==
    LET m1 == m_write(m, STACK_OFFSET + m.stack_pointer, data)
    IN  Then(m1, [m1 EXCEPT !.stack_pointer = (@ + 255) % 256])

\* CPU::push_stack_u16
push_stack_u16(m, data) ==
    push_stack(push_stack(m, data \div 256), BitAnd(data, 255))

\* CPU::compare
compare(m, mode, value) ==
    LET Flags(data) ==
            set_zero_and_negative_flag(set_carry_flag(data.m, value >= data.val),
                                       (value + 256 - data.val) % 256)
        Read(addr) == Flags(m_read(addr.m, addr.val))
    IN  Read(get_op_addr(m, mode))

\* CPU::adc
adc(m, mode) ==
    LET Add(data)  == add_reg_a(data.m, data.val)
        Read(addr) == Add(m_read(addr.m, addr.val))
    IN  Read(get_op_addr(m, mode))

\* CPU::and
and(m, mode) ==
    LET And(data)  == set_reg_a(data.m, BitAnd(m.register_a, data.val))
        Read(addr) == And(m_read(addr.m, addr.val))
    IN  Read(get_op_addr(m, mode))

\* CPU::asl
asl(m, mode) ==
    IF mode = "Accumulator"
    THEN set_reg_a(set_carry_flag(m, m.register_a \div 128 = 1),
                   (m.register_a * 2) % 256)
    ELSE LET Shift(addr, data) ==
                 set_zero_and_negative_flag(
                     m_write(set_carry_flag(data.m, data.val \div 128 = 1),
                             addr.val, (data.val * 2) % 256),
                     (data.val * 2) % 256)
             Read(addr) == Shift(addr, m_read(addr.m, addr.val))
         IN  Read(get_op_addr(m, mode))

\* CPU::bcc
bcc(m) == branch(m, ~Contains(m.status_register, CARRY))

\* CPU::bcs
bcs(m) == branch(m, Contains(m.status_register, CARRY))

\* CPU::beq
beq(m) == branch(m, Contains(m.status_register, ZERO))

\* CPU::bit
bit(m, mode) ==
    LET Test(data) ==
            set_overflow_flag(
                set_negative_flag(
                    set_zero_flag(data.m, BitAnd(m.register_a, data.val)),
                    data.val),
                BitAnd(data.val, 64) # 0)
        Read(addr) == Test(m_read(addr.m, addr.val))
    IN  Read(get_op_addr(m, mode))

\* CPU::bmi
bmi(m) == branch(m, Contains(m.status_register, NEGATIVE))

\* CPU::bne
bne(m) == branch(m, ~Contains(m.status_register, ZERO))

\* CPU::bpl
bpl(m) == branch(m, ~Contains(m.status_register, NEGATIVE))

\* CPU::bvc
bvc(m) == branch(m, ~Contains(m.status_register, OVERFLOW))

\* CPU::bvs
bvs(m) == branch(m, Contains(m.status_register, OVERFLOW))

\* CPU::clc
clc(m) == Then(m, [m EXCEPT !.status_register = Remove(@, CARRY)])

\* CPU::cld
cld(m) == Then(m, [m EXCEPT !.status_register = Remove(@, DECIMAL)])

\* CPU::cli
cli(m) == Then(m, [m EXCEPT !.status_register = Remove(@, INTERRUPT_DISABLE)])

\* CPU::clv
clv(m) == Then(m, [m EXCEPT !.status_register = Remove(@, OVERFLOW)])

\* CPU::cmp
cmp(m, mode) == compare(m, mode, m.register_a)

\* CPU::cpx
cpx(m, mode) == compare(m, mode, m.register_x)

\* CPU::cpy
cpy(m, mode) == compare(m, mode, m.register_y)

\* CPU::dec
dec(m, mode) ==
    LET Write(addr, m1, data) ==
            set_zero_and_negative_flag(m_write(m1, addr.val, data), data)
        Dec(addr, data) == Write(addr, data.m, (data.val + 255) % 256)
        Read(addr)      == Dec(addr, m_read(addr.m, addr.val))
    IN  Read(get_op_addr(m, mode))

\* CPU::dex
dex(m) ==
    LET m1 == Then(m, [m EXCEPT !.register_x = (m.register_x + 255) % 256])
    IN  set_zero_and_negative_flag(m1, m1.register_x)

\* CPU::dey
dey(m) ==
    LET m1 == Then(m, [m EXCEPT !.register_y = (m.register_y + 255) % 256])
    IN  set_zero_and_negative_flag(m1, m1.register_y)

\* CPU::eor
eor(m, mode) ==
    LET Eor(data)  == set_reg_a(data.m, BitXor(m.register_a, data.val))
        Read(addr) == Eor(m_read(addr.m, addr.val))
    IN  Read(get_op_addr(m, mode))

\* CPU::inc
inc(m, mode) ==
    LET Write(addr, m1, data) ==
            set_zero_and_negative_flag(m_write(m1, addr.val, data), data)
        Inc(addr, data) == Write(addr, data.m, (data.val + 1) % 256)
        Read(addr)      == Inc(addr, m_read(addr.m, addr.val))
    IN  Read(get_op_addr(m, mode))

\* CPU::iny
iny(m) ==
    LET m1 == Then(m, [m EXCEPT !.register_y = (m.register_y + 1) % 256])
    IN  set_zero_and_negative_flag(m1, m1.register_y)

\* CPU::jmp
jmp(m, mode) ==
    LET Jump(addr) == Then(addr.m, [addr.m EXCEPT !.program_counter = addr.val])
        JumpTo(h, l) ==
            Then(l.m, [l.m EXCEPT !.program_counter = BitOr(h.val * 256, l.val)])
        PageBug(addr, h) == JumpTo(h, m_read(h.m, addr.val))
        Indirect(addr) ==
            IF ~Live(addr.m) THEN addr.m
            ELSE IF BitAnd(addr.val, 255) = 255
            THEN PageBug(addr, m_read(addr.m, BitAnd(addr.val, 65280)))
            ELSE Jump(m_read_u16(addr.m, addr.val))
    IN  IF mode = "Absolute" THEN Jump(get_op_addr(m, mode))
        ELSE IF mode = "Indirect" THEN Indirect(m_read_u16(m, m.program_counter))
        ELSE Panic(m, "Invalid addressing mode for JMP instruction")

\* `a - b` on a u16: a panic where the build checks overflow, a wrap where
\* it does not
SubU16(m, a, b) ==
    IF a - b < 0
    THEN IF m.overflow_checks
         THEN [m |-> Panic(m, "attempt to subtract with overflow"), val |-> 0]
         ELSE [m |-> m, val |-> (a - b) % 65536]
    ELSE [m |-> m, val |-> a - b]

\* CPU::jsr
jsr(m) ==
    LET Jump(r)   == Then(r.m, [r.m EXCEPT !.program_counter = r.val])
        Read(m1)  == Jump(m_read_u16(m1, m1.program_counter))
        Push(ret) == Read(push_stack_u16(ret.m, ret.val))
    IN  Push(SubU16(m, m.program_counter, 1))

\* CPU::ldx
ldx(m, mode) ==
    LET Flags(m1)  == set_zero_and_negative_flag(m1, m1.register_x)
        Load(data) == Flags(Then(data.m, [data.m EXCEPT !.register_x = data.val]))
        Read(addr) == Load(m_read(addr.m, addr.val))
    IN  Read(get_op_addr(m, mode))

\* CPU::ldy
ldy(m, mode) ==
    LET Flags(m1)  == set_zero_and_negative_flag(m1, m1.register_y)
        Load(data) == Flags(Then(data.m, [data.m EXCEPT !.register_y = data.val]))
        Read(addr) == Load(m_read(addr.m, addr.val))
    IN  Read(get_op_addr(m, mode))

\* CPU::lsr
lsr(m, mode) ==
    IF mode = "Accumulator"
    THEN set_reg_a(set_carry_flag(m, m.register_a % 2 = 1), m.register_a \div 2)
    ELSE LET Shift(addr, data) ==
                 set_zero_and_negative_flag(
                     m_write(set_carry_flag(data.m, data.val % 2 = 1),
                             addr.val, data.val \div 2),
                     data.val \div 2)
             Read(addr) == Shift(addr, m_read(addr.m, addr.val))
         IN  Read(get_op_addr(m, mode))

\* CPU::nop
nop(m) == m

\* CPU::ora
ora(m, mode) ==
    LET Ora(data)  == set_reg_a(data.m, BitOr(m.register_a, data.val))
        Read(addr) == Ora(m_read(addr.m, addr.val))
    IN  Read(get_op_addr(m, mode))

\* CPU::pha
pha(m) == push_stack(m, m.register_a)

\* CPU::php
php(m) ==
    LET status == Insert(Insert(m.status_register, BREAK), BREAK2)
    IN  push_stack(m, status)

\* CPU::pla
pla(m) ==
    LET Load(data) == set_reg_a(data.m, data.val)
    IN  Load(pop_stack(m))

\* plp that takes the pulled byte as it is
plp_unmasked(m) ==
    LET Pull(b) == Then(b.m, [b.m EXCEPT !.status_register = b.val])
    IN  Pull(pop_stack(m))

\* CPU::plp
plp(m) ==
    LET Pull(b) == Then(b.m, [b.m EXCEPT !.status_register =
                                  Insert(Remove(b.val, BREAK), BREAK2)])
    IN  Pull(pop_stack(m))

\* CPU::rol
rol(m, mode) ==
    LET carry == Contains(m.status_register, CARRY)
        Rotated(v) == IF carry THEN BitOr((v * 2) % 256, 1) ELSE (v * 2) % 256
        Rotate(addr, data) ==
            set_zero_and_negative_flag(
                m_write(set_carry_flag(data.m, data.val \div 128 = 1),
                        addr.val, Rotated(data.val)),
                data.val)
        Read(addr) == Rotate(addr, m_read(addr.m, addr.val))
    IN  IF mode = "Accumulator"
        THEN set_reg_a(set_carry_flag(m, m.register_a \div 128 = 1),
                       Rotated(m.register_a))
        ELSE Read(get_op_addr(m, mode))

\* CPU::ror
ror(m, mode) ==
    LET carry == Contains(m.status_register, CARRY)
        Rotated(v) == IF carry THEN BitOr(v \div 2, 128) ELSE v \div 2
        Rotate(addr, data) ==
            set_zero_and_negative_flag(
                m_write(set_carry_flag(data.m, data.val % 2 = 1),
                        addr.val, Rotated(data.val)),
                data.val)
        Read(addr) == Rotate(addr, m_read(addr.m, addr.val))
    IN  IF mode = "Accumulator"
        THEN set_reg_a(set_carry_flag(m, m.register_a % 2 = 1),
                       Rotated(m.register_a))
        ELSE Read(get_op_addr(m, mode))

\* CPU::rti
rti(m) ==
    LET Jump(pc) == Then(pc.m, [pc.m EXCEPT !.program_counter = pc.val])
        Pull(b)  == Jump(pop_stack_u16(
                        Then(b.m, [b.m EXCEPT !.status_register =
                                        Insert(Remove(b.val, BREAK), BREAK2)])))
    IN  Pull(pop_stack(m))

\* CPU::rts
rts(m) ==
    LET Jump(r)  == Then(r.m, [r.m EXCEPT !.program_counter = r.val])
        Add1(pc) == Jump(AddU16(pc.m, pc.val, 1))
    IN  Add1(pop_stack_u16(m))

\* sbc that adds the two's-complement negation of the operand
sbc_negated(m, mode) ==
    LET Sub(data)  == add_reg_a(data.m, (256 - data.val) % 256)
        Read(addr) == Sub(m_read(addr.m, addr.val))
    IN  Read(get_op_addr(m, mode))

\* CPU::sbc
sbc(m, mode) ==
    LET Sub(data)  == add_reg_a(data.m, (((256 - data.val) % 256) + 255) % 256)
        Read(addr) == Sub(m_read(addr.m, addr.val))
    IN  Read(get_op_addr(m, mode))

\* CPU::sec
sec(m) == set_carry_flag(m, TRUE)

\* CPU::sed
sed(m) == Then(m, [m EXCEPT !.status_register = Insert(@, DECIMAL)])

\* CPU::sei
sei(m) == Then(m, [m EXCEPT !.status_register = Insert(@, INTERRUPT_DISABLE)])

\* CPU::sta
sta(m, mode) ==
    LET Write(addr) == m_write(addr.m, addr.val, m.register_a)
    IN  Write(get_op_addr(m, mode))

\* CPU::stx
stx(m, mode) ==
    LET Write(addr) == m_write(addr.m, addr.val, m.register_x)
    IN  Write(get_op_addr(m, mode))

\* CPU::sty
sty(m, mode) ==
    LET Write(addr) == m_write(addr.m, addr.val, m.register_y)
    IN  Write(get_op_addr(m, mode))

\* CPU::tay
tay(m) ==
    LET m1 == Then(m, [m EXCEPT !.register_y = m.register_a])
    IN  set_zero_and_negative_flag(m1, m1.register_y)

\* CPU::tsx
tsx(m) ==
    LET m1 == Then(m, [m EXCEPT !.register_x = m.stack_pointer])
    IN  set_zero_and_negative_flag(m1, m1.register_x)

\* CPU::txa
txa(m) ==
    LET m1 == Then(m, [m EXCEPT !.register_a = m.register_x])
    IN  set_zero_and_negative_flag(m1, m1.register_a)

\* CPU::txs
txs(m) == Then(m, [m EXCEPT !.stack_pointer = m.register_x])

\* CPU::tya
tya(m) ==
    LET m1 == Then(m, [m EXCEPT !.register_a = m.register_y])
    IN  set_zero_and_negative_flag(m1, m1.register_a)

\* reset that leaves the accumulator as it found it
reset_keeps_a(m) ==
    LET m1 == Then(m, [m EXCEPT !.register_x = 0,
                                !.register_y = 0, !.stack_pointer = STACK_RESET,
                                !.status_register = BitAnd(36, 255)])
        r  == m_read_u16(m1, 65532)
    IN  Then(r.m, [r.m EXCEPT !.program_counter = r.val])

\* CPU::reset
reset(m) ==
    LET m1 == Then(m, [m EXCEPT !.register_a = 0, !.register_x = 0,
                                !.register_y = 0, !.stack_pointer = STACK_RESET,
                                !.status_register = BitAnd(36, 255)])
        r  == m_read_u16(m1, 65532)
    IN  Then(r.m, [r.m EXCEPT !.program_counter = r.val])

\* memory[base .. base + Len(program)].clone_from_slice(program)
CloneFromSlice(arr, base, program) ==
    [j \in (DOMAIN arr) \cup {base + i - 1 : i \in 1..Len(program)} |->
        IF j >= base /\ j < base + Len(program) THEN program[j - base + 1] ELSE arr[j]]

\* CPU::load
load(m, program) ==
    LET m1 == Then(m, [m EXCEPT !.memory = CloneFromSlice(@, 24576, program)])
    IN  m_write_u16(m1, 65532, 24576)

\* `return` inside the loop of run_callback
Return(m) == Then(m, [m EXCEPT !.running = FALSE])

\* the arm of the `match code` in run_callback that an opcode selects; the
\* arm of 0x00 and the last arm return from run_callback
Dispatch(m, code, mode) ==
    CASE code \in {97, 101, 105, 109, 113, 117, 121, 125} -> adc(m, mode)
      [] code \in {33, 37, 41, 45, 49, 53, 57, 61} -> and(m, mode)
      [] code \in {6, 10, 14, 22, 30} -> asl(m, mode)
      [] code = 144 -> bcc(m)
      [] code = 176 -> bcs(m)
      [] code = 240 -> beq(m)
      [] code \in {36, 44} -> bit(m, mode)
      [] code = 48 -> bmi(m)
      [] code = 208 -> bne(m)
      [] code = 16 -> bpl(m)
      [] code = 0 -> Return(m)
      [] code = 80 -> bvc(m)
      [] code = 112 -> bvs(m)
      [] code = 24 -> clc(m)
      [] code = 216 -> cld(m)
      [] code = 88 -> cli(m)
      [] code = 184 -> clv(m)
      [] code \in {193, 197, 201, 205, 209, 213, 217, 221} -> cmp(m, mode)
      [] code \in {224, 228, 236} -> cpx(m, mode)
      [] code \in {192, 196, 204} -> cpy(m, mode)
      [] code \in {198, 206, 214, 222} -> dec(m, mode)
      [] code = 202 -> dex(m)
      [] code = 136 -> dey(m)
      [] code \in {65, 69, 73, 77, 81, 85, 89, 93} -> eor(m, mode)
      [] code \in {230, 238, 246, 254} -> inc(m, mode)
      [] code = 232 -> inx(m)
      [] code = 200 -> iny(m)
      [] code \in {76, 108} -> jmp(m, mode)
      [] code = 32 -> jsr(m)
      [] code \in {161, 165, 169, 173, 177, 181, 185, 189} -> lda(m, mode)
      [] code \in {162, 166, 174, 182, 190} -> ldx(m, mode)
      [] code \in {160, 164, 172, 180, 188} -> ldy(m, mode)
      [] code \in {70, 74, 78, 86, 94} -> lsr(m, mode)
      [] code = 234 -> nop(m)
      [] code \in {1, 5, 9, 13, 17, 21, 25, 29} -> ora(m, mode)
      [] code = 72 -> pha(m)
      [] code = 8 -> php(m)
      [] code = 104 -> pla(m)
      [] code = 40 -> plp(m)
      [] code \in {38, 42, 46, 54, 62} -> rol(m, mode)
      [] code \in {102, 106, 110, 118, 126} -> ror(m, mode)
      [] code = 64 -> rti(m)
      [] code = 96 -> rts(m)
      [] code \in {225, 229, 233, 237, 241, 245, 249, 253} -> sbc(m, mode)
      [] code = 56 -> sec(m)
      [] code = 248 -> sed(m)
      [] code = 120 -> sei(m)
      [] code \in {129, 133, 141, 145, 149, 153, 157} -> sta(m, mode)
      [] code \in {134, 142, 150} -> stx(m, mode)
      [] code \in {132, 140, 148} -> sty(m, mode)
      [] code = 170 -> tax(m)
      [] code = 168 -> tay(m)
      [] code = 186 -> tsx(m)
      [] code = 138 -> txa(m)
      [] code = 154 -> txs(m)
      [] code = 152 -> tya(m)
      [] OTHER -> Return(Println(m, <<"Unknown opcode", code>>))

\* callback(self): the observer records the program counter it is shown and
\* the number of opcode bytes fetched so far
callback(m) ==
    Then(m, [m EXCEPT !.observed =
                Append(@, [pc |-> m.program_counter, fetches |-> m.fetches])])

\* an end of iteration that shows the observer the halting fetch as well
EndOfIteration_observes_return(pc_state, m3, bytes) ==
    LET pc2 == AddU16(m3, m3.program_counter, bytes - 1)
        m4  == IF pc_state = m3.program_counter /\ m3.running
               THEN Then(pc2.m, [pc2.m EXCEPT !.program_counter = pc2.val])
               ELSE m3
    IN  IF ~Live(m3) THEN m3 ELSE callback(m4)

\* the end of an iteration of the loop, where m3 is the machine the arm of
\* the match has left: unless the arm has returned, the program counter is
\* moved past the operand bytes if the arm has not moved it, and the
\* callback is called
EndOfIteration(pc_state, m3, bytes) ==
    LET pc2 == AddU16(m3, m3.program_counter, bytes - 1)
        m4  == IF pc_state = m3.program_counter
               THEN Then(pc2.m, [pc2.m EXCEPT !.program_counter = pc2.val])
               ELSE m3
    IN  IF ~Live(m3) \/ ~m3.running THEN m3 ELSE callback(m4)

\* the iteration after the fetch of the opcode byte `code`: the program
\* counter is incremented, the descriptor is looked up and the match runs
Decode(m, code) ==
    LET m0  == Then(code.m, [code.m EXCEPT !.fetches = @ + 1])
        pc1 == AddU16(m0, m.program_counter, 1)
        m1  == Then(pc1.m, [pc1.m EXCEPT !.program_counter = pc1.val])
        m2  == IF code.val \in DOMAIN OPCODES_MAP THEN m1
               ELSE Panic(m1, "called Option::unwrap() on a None value")
    IN  IF ~Live(m2) THEN m2
        ELSE EndOfIteration(m2.program_counter,
                            Dispatch(m2, code.val, OPCODES_MAP[code.val].mode),
                            OPCODES_MAP[code.val].bytes)

\* one iteration of the loop of CPU::run_callback
run_callback_iteration(m) == Decode(m, m_read(m, m.program_counter))

\* CPU::run: control enters the loop of run_callback
run(m) == Then(m, [m EXCEPT !.running = TRUE, !.fetches = 0, !.observed = <<>>])

\* CPU::load_and_run
load_and_run(m, program) == run(reset(load(m, program)))

\* ------------------------------------------------- ppu/registers/address.rs
\* AddressRegister::new
AddressRegister_new == [value |-> <<0, 0>>, hi_ptr |-> TRUE]

\* AddressRegister::set
AddressRegister_set(ar, data) ==
    [ar EXCEPT !.value = <<(data \div 256) % 256, BitAnd(data, 255)>>]

\* AddressRegister::get
AddressRegister_get(ar) == BitOr(ar.value[1] * 256, ar.value[2])

\* AddressRegister::update
AddressRegister_update(ar, value) ==
    LET a1 == IF ar.hi_ptr THEN [ar EXCEPT !.value[1] = value]
              ELSE [ar EXCEPT !.value[2] = value]
        a2 == IF AddressRegister_get(a1) > 16383
              THEN AddressRegister_set(a1, BitAnd(AddressRegister_get(a1), 16383))
              ELSE a1
    IN  [a2 EXCEPT !.hi_ptr = ~a2.hi_ptr]

\* increment that drops the carry out of the low byte
AddressRegister_increment_no_carry(ar, value) ==
    LET a1 == [ar EXCEPT !.value[2] = (ar.value[2] + value) % 256]
    IN  IF AddressRegister_get(a1) > 16383
        THEN AddressRegister_set(a1, BitAnd(AddressRegister_get(a1), 16383))
        ELSE a1

\* AddressRegister::increment
AddressRegister_increment(ar, value) ==
    LET l  == ar.value[2]
        a1 == [ar EXCEPT !.value[2] = (ar.value[2] + value) % 256]
        a2 == IF l > a1.value[2]
              THEN [a1 EXCEPT !.value[1] = (a1.value[1] + 1) % 256]
              ELSE a1
    IN  IF AddressRegister_get(a2) > 16383
        THEN AddressRegister_set(a2, BitAnd(AddressRegister_get(a2), 16383))
        ELSE a2

\* AddressRegister::reset_latch
AddressRegister_reset_latch(ar) == [ar EXCEPT !.hi_ptr = TRUE]

\* ------------------------------------------------- ppu/registers/control.rs
VRAM_ADD_INCREMENT == 4

\* ControlRegister::new
ControlRegister_new == 0

\* ControlRegister::vram_add_increment
vram_add_increment(control) ==
    IF Contains(control, VRAM_ADD_INCREMENT) THEN 32 ELSE 1

\* ControlRegister::update
ControlRegister_update(control, value) == value

\* ---------------------------------------- the other registers of the PPU
\* MaskRegister::new
MaskRegister_new == 0

\* StatusRegister::new: no flag is set
StatusRegister_new == 0

\* bit 7 of the status byte: the vblank flag
VBLANK_STARTED == 128

\* StatusRegister::snapshot: the status byte
StatusRegister_snapshot(status) == status

\* StatusRegister::set_vblank_status
StatusRegister_set_vblank_status(status, value) ==
    IF value THEN Insert(status, VBLANK_STARTED) ELSE Remove(status, VBLANK_STARTED)

\* StatusRegister::reset_vblank_status
StatusRegister_reset_vblank_status(status) == Remove(status, VBLANK_STARTED)

\* ScrollRegister::new
ScrollRegister_new == [scroll_x |-> 0, scroll_y |-> 0, latch |-> FALSE]

\* ScrollRegister::write
ScrollRegister_write(sr, value) ==
    LET s1 == IF ~sr.latch THEN [sr EXCEPT !.scroll_x = value]
              ELSE [sr EXCEPT !.scroll_y = value]
    IN  [s1 EXCEPT !.latch = ~sr.latch]

\* ScrollRegister::reset_latch
ScrollRegister_reset_latch(sr) == [sr EXCEPT !.latch = FALSE]

\* ------------------------------------------------------------- ppu/mod.rs
\* PPU::new
PPU_new(chr_rom, mirroring) ==
    [chr_rom |-> chr_rom, mirroring |-> mirroring,
     control |-> ControlRegister_new, mask |-> MaskRegister_new,
     status |-> StatusRegister_new, address |-> AddressRegister_new,
     scroll |-> ScrollRegister_new, vram |-> Zeroed, oam_data |-> Zeroed,
     oam_addr |-> 0, palette_table |-> Zeroed, internal_buffer |-> 0]

\* chr_rom[i]: the graphics ROM is its length and its bytes, the bytes listed
\* in `bytes` and the byte `fill` elsewhere
ChrByte(rom, i) == IF i \in DOMAIN rom.bytes THEN rom.bytes[i] ELSE rom.fill

\* PPU::new_empty_rom: 0x800 bytes of 0 as graphics ROM
PPU_new_empty_rom ==
    PPU_new([len |-> 2048, fill |-> 0, bytes |-> Zeroed], "HORIZONTAL")

\* mirror_vram_address that leaves the second nametable of Horizontal mode
\* unfolded
mirror_vram_address_unfolded(m, addr) ==
    LET mirrored   == BitAnd(addr, 12287)
        vram_index == mirrored - 8192
        name_table == vram_index \div 1024
    IN  IF m.ppu.mirroring = "VERTICAL" /\ name_table \in {2, 3} THEN vram_index - 2048
        ELSE IF m.ppu.mirroring = "HORIZONTAL" /\ name_table = 2 THEN vram_index - 1024
        ELSE IF m.ppu.mirroring = "HORIZONTAL" /\ name_table = 3 THEN vram_index - 2048
        ELSE vram_index

\* PPU::mirror_vram_address
mirror_vram_address(m, addr) ==
    LET mirrored   == BitAnd(addr, 12287)
        vram_index == mirrored - 8192
        name_table == vram_index \div 1024
    IN  IF m.ppu.mirroring = "VERTICAL" /\ name_table \in {2, 3} THEN vram_index - 2048
        ELSE IF m.ppu.mirroring = "HORIZONTAL" /\ name_table = 2 THEN vram_index - 1024
        ELSE IF m.ppu.mirroring = "HORIZONTAL" /\ name_table = 1 THEN vram_index - 1024
        ELSE IF m.ppu.mirroring = "HORIZONTAL" /\ name_table = 3 THEN vram_index - 2048
        ELSE vram_index

\* PPU::increment_vram_addr
increment_vram_addr(m) ==
    LET increment == vram_add_increment(m.ppu.control)
    IN  Then(m, [m EXCEPT !.ppu.address = AddressRegister_increment(@, increment)])

\* PPU::write_to_control
write_to_control(m, value) ==
    Then(m, [m EXCEPT !.ppu.control = ControlRegister_update(@, value)])

\* PPU::write_to_address
write_to_address(m, value) ==
    Then(m, [m EXCEPT !.ppu.address = AddressRegister_update(@, value)])

\* array[i] = v on an array of len cells; an index out of bounds stores
\* nothing
StoreChecked(arr, len, i, v) ==
    IF i >= 0 /\ i < len THEN Store(arr, i, v) ELSE arr

\* the bounds check of array[i] on an array of len cells
IndexChecked(m, len, i) ==
    IF i >= 0 /\ i < len THEN m ELSE Panic(m, "index out of bounds")

\* write_to_data without the arm that folds 0x3F10, 0x3F14, 0x3F18, 0x3F1C
write_to_data_palette_unfolded(m, value) ==
    LET addr == AddressRegister_get(m.ppu.address)
        m1 ==
          IF addr >= 0 /\ addr <= 8191 THEN
              Println(m, <<"Attempted to write to CHR-ROM at", addr>>)
          ELSE IF addr >= 8192 /\ addr <= 12287 THEN
              LET i == mirror_vram_address(m, addr)
              IN  IndexChecked([m EXCEPT !.ppu.vram = StoreChecked(@, 2048, i, value)],
                               2048, i)
          ELSE IF addr >= 12288 /\ addr <= 16127 THEN
              Panic(m, "not implemented: shouldnt be written to")
          ELSE IF addr >= 16128 /\ addr <= 16383 THEN
              LET i == addr - 16128
              IN  IndexChecked([m EXCEPT !.ppu.palette_table =
                                    StoreChecked(@, 32, i, value)], 32, i)
          ELSE Panic(m, "Attempted to write to invalid address")
    IN  IF ~Live(m) THEN m ELSE increment_vram_addr(m1)

\* write_to_data on a graphics memory that takes the byte
write_to_data_chr_ram(m, value) ==
    LET addr == AddressRegister_get(m.ppu.address)
        m1 ==
          IF addr >= 0 /\ addr <= 8191 THEN
              [m EXCEPT !.ppu.chr_rom.bytes = Store(@, addr, value)]
          ELSE IF addr >= 8192 /\ addr <= 12287 THEN
              LET i == mirror_vram_address(m, addr)
              IN  IndexChecked([m EXCEPT !.ppu.vram = StoreChecked(@, 2048, i, value)],
                               2048, i)
          ELSE IF addr >= 12288 /\ addr <= 16127 THEN
              Panic(m, "not implemented: shouldnt be written to")
          ELSE IF addr \in {16144, 16148, 16152, 16156} THEN
              LET add_mirror == addr - 16
                  i          == add_mirror - 16128
              IN  IndexChecked([m EXCEPT !.ppu.palette_table =
                                    StoreChecked(@, 32, i, value)], 32, i)
          ELSE IF addr >= 16128 /\ addr <= 16383 THEN
              LET i == addr - 16128
              IN  IndexChecked([m EXCEPT !.ppu.palette_table =
                                    StoreChecked(@, 32, i, value)], 32, i)
          ELSE Panic(m, "Attempted to write to invalid address")
    IN  IF ~Live(m) THEN m ELSE increment_vram_addr(m1)

\* PPU::write_to_data
write_to_data(m, value) ==
    LET addr == AddressRegister_get(m.ppu.address)
        m1 ==
          IF addr >= 0 /\ addr <= 8191 THEN
              Println(m, <<"Attempted to write to CHR-ROM at", addr>>)
          ELSE IF addr >= 8192 /\ addr <= 12287 THEN
              LET i == mirror_vram_address(m, addr)
              IN  IndexChecked([m EXCEPT !.ppu.vram = StoreChecked(@, 2048, i, value)],
                               2048, i)
          ELSE IF addr >= 12288 /\ addr <= 16127 THEN
              Panic(m, "not implemented: shouldnt be written to")
          ELSE IF addr \in {16144, 16148, 16152, 16156} THEN
              LET add_mirror == addr - 16
                  i          == add_mirror - 16128
              IN  IndexChecked([m EXCEPT !.ppu.palette_table =
                                    StoreChecked(@, 32, i, value)], 32, i)
          ELSE IF addr >= 16128 /\ addr <= 16383 THEN
              LET i == addr - 16128
              IN  IndexChecked([m EXCEPT !.ppu.palette_table =
                                    StoreChecked(@, 32, i, value)], 32, i)
          ELSE Panic(m, "Attempted to write to invalid address")
    IN  IF ~Live(m) THEN m ELSE increment_vram_addr(m1)

\* read_from_status that leaves the vblank flag as it is
read_from_status_keeps_vblank(m) ==
    LET data == StatusRegister_snapshot(m.ppu.status)
    IN  [m |-> Then(m, [m EXCEPT
                   !.ppu.address = AddressRegister_reset_latch(@),
                   !.ppu.scroll  = ScrollRegister_reset_latch(@)]),
         val |-> data]

\* read_from_status that does not reset the latch of the scroll register
read_from_status_keeps_scroll_latch(m) ==
    LET data == StatusRegister_snapshot(m.ppu.status)
    IN  [m |-> Then(m, [m EXCEPT
                   !.ppu.status  = StatusRegister_reset_vblank_status(@),
                   !.ppu.address = AddressRegister_reset_latch(@)]),
         val |-> data]

\* PPU::read_from_status
read_from_status(m) ==
    LET data == StatusRegister_snapshot(m.ppu.status)
    IN  [m |-> Then(m, [m EXCEPT
                   !.ppu.status  = StatusRegister_reset_vblank_status(@),
                   !.ppu.address = AddressRegister_reset_latch(@),
                   !.ppu.scroll  = ScrollRegister_reset_latch(@)]),
         val |-> data]

\* PPU::write_to_oam_addr
write_to_oam_addr(m, value) == Then(m, [m EXCEPT !.ppu.oam_addr = value])

\* write_to_oam_data that leaves the OAM pointer where it is
write_to_oam_data_no_increment(m, value) ==
    Then(m, [m EXCEPT !.ppu.oam_data = Store(@, m.ppu.oam_addr, value)])

\* PPU::write_to_oam_data
write_to_oam_data(m, value) ==
    Then(m, [m EXCEPT !.ppu.oam_data = Store(@, m.ppu.oam_addr, value),
                      !.ppu.oam_addr = (@ + 1) % 256])

\* PPU::read_from_oam_data
read_from_oam_data(m) == [m |-> m, val |-> Cell(m.ppu.oam_data, m.ppu.oam_addr)]

\* PPU::write_to_scroll
write_to_scroll(m, value) ==
    Then(m, [m EXCEPT !.ppu.scroll = ScrollRegister_write(@, value)])

\* PPU::read_from_data
read_from_data(m) ==
    LET addr == AddressRegister_get(m.ppu.address)
        m1   == increment_vram_addr(m)
        buffered == m1.ppu.internal_buffer
    IN  IF ~Live(m) THEN [m |-> m, val |-> 0]
        ELSE IF addr >= 0 /\ addr <= 8191 THEN
            IF addr < m1.ppu.chr_rom.len
            THEN [m |-> [m1 EXCEPT !.ppu.internal_buffer = ChrByte(m1.ppu.chr_rom, addr)],
                  val |-> buffered]
            ELSE [m |-> Panic(m1, "index out of bounds"), val |-> 0]
        ELSE IF addr >= 8192 /\ addr <= 12287 THEN
            LET i == mirror_vram_address(m1, addr)
            IN  IF i >= 0 /\ i < 2048
                THEN [m |-> [m1 EXCEPT !.ppu.internal_buffer = Cell(m1.ppu.vram, i)],
                      val |-> buffered]
                ELSE [m |-> Panic(m1, "index out of bounds"), val |-> 0]
        ELSE IF addr >= 12288 /\ addr <= 16127 THEN
            [m |-> Panic(m1, "not implemented: addr shouldn't be used in reallity"),
             val |-> 0]
        ELSE IF addr \in {16144, 16148, 16152, 16156} THEN
            LET add_mirror == addr - 16
                i          == add_mirror - 16128
            IN  [m |-> IndexChecked(m1, 32, i), val |-> Cell(m1.ppu.palette_table, i)]
        ELSE IF addr >= 16128 /\ addr <= 16383 THEN
            LET i == addr - 16128
            IN  IF i < 32
                THEN [m |-> m1, val |-> Cell(m1.ppu.palette_table, i)]
                ELSE [m |-> Panic(m1, "index out of bounds"), val |-> 0]
        ELSE [m |-> Panic(m1, "unexpected access to mirrored space"), val |-> 0]

\* write_to_oam_dma that stops at the end of the OAM instead of wrapping
write_to_oam_dma_no_wrap(m, data) ==
    Then(m, [m EXCEPT !.ppu.oam_data =
                [j \in (DOMAIN @) \cup (m.ppu.oam_addr..255) |->
                    IF j >= m.ppu.oam_addr /\ j - m.ppu.oam_addr < Len(data)
                    THEN data[j - m.ppu.oam_addr + 1] ELSE @[j]]])

\* PPU::write_to_oam_dma: the bytes of data in order, each stored at the OAM
\* pointer, which then advances.  The loop over data is the loop over its
\* first half followed by the loop over its second half.
RECURSIVE write_to_oam_dma(_, _)
write_to_oam_dma(m, data) ==
    IF ~Live(m) \/ Len(data) = 0 THEN m
    ELSE IF Len(data) = 1 THEN
        Then(m, [m EXCEPT !.ppu.oam_data = Store(@, m.ppu.oam_addr, data[1]),
                          !.ppu.oam_addr = (@ + 1) % 256])
    ELSE write_to_oam_dma(
             write_to_oam_dma(m, SubSeq(data, 1, Len(data) \div 2)),
             SubSeq(data, Len(data) \div 2 + 1, Len(data)))

\* ------------------------------------------------------------------ inputs
\* the program images a bus is constructed with: 16 KiB and 32 KiB of
\* filler, and a 16 KiB image that holds a program at its start and a
\* reset vector that points to it
RomProgram == <<169, 192, 170, 232, 165, 16, 0>>

TestRoms ==
    { [len |-> 16384, fill |-> 7, bytes |-> Zeroed],
      [len |-> 32768, fill |-> 7, bytes |-> Zeroed],
      [len |-> 16384, fill |-> 0,
       bytes |-> [i \in (0..(Len(RomProgram) - 1)) \cup {16380, 16381} |->
                    IF i < Len(RomProgram) THEN RomProgram[i + 1]
                    ELSE IF i = 16380 THEN 0 ELSE 128]] }

WriteAddrs == {0, 16, 2047, 2064, 8191, 8192, 16384, 32767, 32768, 65535}

WriteBytes == {0, 102, 255}

ReadAddrs == {16, 2064, 8191, 16383, 16384, 24576, 32767, 32768, 49151, 49152, 65535}

Write16Addrs == {16, 2047, 8191, 32767, 32768, 65535}

Write16Data == {4660, 24576}

Read16Addrs == {16, 2047, 32767, 65532, 65535}

TestPrograms ==
    { <<169, v, 0>> : v \in {0, 5, 192} } \cup
    { <<169, v, 170, 232, 0>> : v \in {192, 255} } \cup
    { <<232, 232, 0>>, <<170, 0>>, <<165, 16, 0>> }

AssignFields == { <<"register_a", 10>>, <<"register_x", 255>> }

\* ----------------------------------------------------------- specification
Init ==
    /\ register_a = 0
    /\ register_x = 0
    /\ register_y = 0
    /\ stack_pointer = STACK_RESET
    /\ program_counter = 0
    /\ status_register = BitAnd(36, 255)
    /\ memory = Zeroed
    /\ cpu_vram = Zeroed
    /\ prg_rom \in TestRoms
    /\ panic = NoPanic
    /\ stdout = <<>>
    /\ running = FALSE
    /\ overflow_checks \in BOOLEAN
    /\ fetches = 0
    /\ observed = <<>>
    /\ ppu = PPU_new_empty_rom
    /\ last = [op |-> "new", addr |-> 0, data |-> 0, ret |-> 0, program |-> <<>>,
               entry_a |-> 0, entry_x |-> 0]
    /\ steps = 0

\* the machine becomes m2
Commit(m2) ==
    /\ register_a' = m2.register_a
    /\ register_x' = m2.register_x
    /\ register_y' = m2.register_y
    /\ stack_pointer' = m2.stack_pointer
    /\ program_counter' = m2.program_counter
    /\ status_register' = m2.status_register
    /\ memory' = m2.memory
    /\ cpu_vram' = m2.cpu_vram
    /\ prg_rom' = m2.prg_rom
    /\ panic' = m2.panic
    /\ stdout' = m2.stdout
    /\ running' = m2.running
    /\ overflow_checks' = m2.overflow_checks
    /\ fetches' = m2.fetches
    /\ observed' = m2.observed
    /\ ppu' = m2.ppu

\* the caller holds the CPU: no call is in progress and none has panicked
Idle == panic = NoPanic /\ ~running /\ steps < MaxSteps

\* the call made, its arguments, what it returned, and the registers it found
Called(op, addr, data, ret, program) ==
    /\ last' = [op |-> op, addr |-> addr, data |-> data, ret |-> ret,
                program |-> program,
                entry_a |-> register_a, entry_x |-> register_x]
    /\ steps' = steps + 1

\* cpu.m_write(addr, data)
Write ==
    \E addr \in WriteAddrs, data \in WriteBytes :
        /\ Idle
        /\ Commit(m_write(Cur, addr, data))
        /\ Called("m_write", addr, data, 0, <<>>)

\* cpu.m_read(addr)
Read ==
    \E addr \in ReadAddrs :
        LET r == m_read(Cur, addr) IN
        /\ Idle
        /\ Commit(r.m)
        /\ Called("m_read", addr, 0, r.val, <<>>)

\* cpu.m_write_u16(addr, data)
Write16 ==
    \E addr \in Write16Addrs, data \in Write16Data :
        /\ Idle
        /\ Commit(m_write_u16(Cur, addr, data))
        /\ Called("m_write_u16", addr, data, 0, <<>>)

\* cpu.m_read_u16(addr)
Read16 ==
    \E addr \in Read16Addrs :
        LET r == m_read_u16(Cur, addr) IN
        /\ Idle
        /\ Commit(r.m)
        /\ Called("m_read_u16", addr, 0, r.val, <<>>)

\* cpu.register_a = v, cpu.register_x = v (the fields are pub)
Assign ==
    \E f \in AssignFields :
        /\ Idle
        /\ Commit(IF f[1] = "register_a" THEN [Cur EXCEPT !.register_a = f[2]]
                  ELSE [Cur EXCEPT !.register_x = f[2]])
        /\ Called(f[1], 0, f[2], 0, <<>>)

\* cpu.load(program)
Load ==
    \E program \in TestPrograms :
        /\ Idle
        /\ Commit(load(Cur, program))
        /\ Called("load", 0, 0, 0, program)

\* cpu.reset()
Reset ==
    /\ Idle
    /\ Commit(reset(Cur))
    /\ Called("reset", 0, 0, 0, <<>>)

\* cpu.run()
Run ==
    /\ Idle
    /\ Commit(run(Cur))
    /\ Called("run", 0, 0, 0, <<>>)

\* cpu.load_and_run(program)
LoadAndRun ==
    \E program \in TestPrograms :
        /\ Idle
        /\ Commit(load_and_run(Cur, program))
        /\ Called("load_and_run", 0, 0, 0, program)

\* the loop of run_callback fetches and executes one instruction
Step ==
    /\ panic = NoPanic
    /\ running
    /\ fetches < MaxInstr
    /\ Commit(run_callback_iteration(Cur))
    /\ UNCHANGED <<last, steps>>

Next ==
    \/ Write
    \/ Read
    \/ Write16
    \/ Read16
    \/ Assign
    \/ Load
    \/ Reset
    \/ Run
    \/ LoadAndRun
    \/ Step

Spec == Init /\ [][Next]_vars

\* ------------------------------------------------- a run under observation
\* The states run_callback is entered in.  The fields of the CPU are pub
\* and RAM is written through m_write, so a caller chooses the registers,
\* the bytes of RAM and the program before it calls run_callback.

\* the bytes a caller has stored in page zero and in the stack page (and in
\* five cells above them); every byte value occurs in page zero, and the
\* cell of the stack page at the same offset differs
DataImage ==
    [i \in (0..511) \cup {512, 640, 641, 767, 768} |->
        IF i < 256 THEN (37 * i + 11) % 256 ELSE (91 * i + 200) % 256]

\* a program at address pc and the registers it starts with
Scenario(pc, program, a, x, sp, p) ==
    [pc |-> pc, program |-> program, a |-> a, x |-> x, y |-> 0, sp |-> sp, p |-> p]

\* the opcodes of the eight conditional branches
BranchCodes == {144, 176, 240, 48, 208, 16, 80, 112}

\* The programs run_callback is entered with:
\*  - straight-line programs, a loop, an opcode byte without descriptor and
\*    a read of a PPU register;
\*  - JMP (p) for pointers in RAM, in the PPU range, in the unmapped range
\*    and in the program image, and JMP to an absolute address; the last two
\*    jump to the address that follows their own opcode byte (cells 158 and
\*    159 of the data image hold 0x06E1);
\*  - JSR to a subroutine that returns at once, JSR to the address that
\*    follows its own opcode byte and to an address further on, and RTS;
\*  - PHA, PLA and PHP for several accumulators and stack pointers;
\*  - every branch opcode with seven operands, with all the flags it tests
\*    clear and with all of them set, in the middle of RAM and at address 0;
\*  - PLP and RTI for every stack pointer;
\*  - ADC with an immediate operand for accumulators, operands and carries
\*    around the sign and the carry boundaries, and ADC of a zero-page byte;
\*  - SBC with an immediate operand for the same accumulators and operands
\*    with Carry clear and set, and SBC of a zero-page byte;
\*  - ASL, LSR, ROL and ROR of the accumulator and of the zero-page bytes
\*    0x5B, 0x80, 0x01 and 0x00 (cells 16, 17, 62 and 145 of the data
\*    image), with Carry clear and set;
\*  - LDY #y then STA (z),Y for pointers in the zero page that point into
\*    RAM, into its mirrors and to the top of the address space, one of them
\*    in the cells 0xFF and 0x00;
\*  - STA (z,X) with X = 7 for pointers at 0x06, 0x3D, 0xFE and 0xFF.
RunScenarios ==
    LET LoopScenarios ==
          { Scenario(1536, prog, 66, 7, 253, 36) :
              prog \in { <<0>>, <<2>>, <<234, 255>>, <<232, 2>>,
                         <<169, 5, 170, 232, 0>>, <<76, 0, 6>>,
                         <<173, 0, 32>>, <<232, 232, 232, 232, 232, 232, 232, 0>> } }
        JumpScenarios ==
          { Scenario(1536, <<108, ptr % 256, ptr \div 256>>, 66, 7, 253, 36) :
              ptr \in {767, 640, 255, 256, 12543, 12288, 20479, 33023, 33024, 65535} }
          \cup { Scenario(1536, <<76, 16, 6>>, 66, 7, 253, 36),
                 Scenario(1536, <<76, 1, 6>>, 66, 7, 253, 36),
                 Scenario(1760, <<108, 158, 0>>, 66, 7, 253, 36) }
        CallScenarios ==
          { Scenario(1536, <<32, 5, 6, 0, 234, 96>>, 66, 7, sp, 36) : sp \in {253, 1, 0} }
          \cup { Scenario(1536, <<96>>, 66, 7, sp, 36) : sp \in {253, 254, 255} }
          \cup { Scenario(1536, <<32, 1, 6>>, 66, 7, 253, 36),
                 Scenario(1536, <<32, 16, 6>>, 66, 7, 253, 36) }
        StackScenarios ==
          { Scenario(1536, prog, a, 7, sp, 36) :
              prog \in { <<72, 104, 0>>, <<72, 138, 72, 104, 170, 104>>,
                         <<8, 104, 0>>, <<104, 0>> },
              a \in {0, 66, 255}, sp \in {253, 0, 255, 128} }
        BranchScenarios ==
          { Scenario(pc, <<code, o, 0>>, 66, 7, 253, p) :
              pc \in {1536, 0}, code \in BranchCodes,
              o \in {0, 5, 127, 128, 253, 254, 255}, p \in {36, 231} }
        PullScenarios ==
          { Scenario(1536, <<code, 0>>, 66, 7, sp, 36) :
              code \in {40, 64}, sp \in 0..255 }
        AddScenarios ==
          { Scenario(1536, <<105, operand, 0>>, a, 7, 253, p) :
              a \in {0, 1, 80, 127, 128, 208, 255},
              operand \in {0, 1, 80, 127, 128, 208, 255},
              p \in {36, 37, 230, 231} }
          \cup { Scenario(1536, <<101, 16, 0>>, a, 7, 253, p) :
                   a \in {37, 165}, p \in {36, 37} }
        SubScenarios ==
          { Scenario(1536, <<233, operand, 0>>, a, 7, 253, p) :
              a \in {0, 1, 80, 127, 128, 208, 255},
              operand \in {0, 1, 80, 127, 128, 208, 255},
              p \in {36, 37} }
          \cup { Scenario(1536, <<229, 16, 0>>, a, 7, 253, p) :
                   a \in {37, 165}, p \in {36, 37} }
        ShiftScenarios ==
          { Scenario(1536, <<code, 0>>, a, 7, 253, p) :
              code \in {10, 74, 42, 106}, a \in {0, 1, 64, 128, 129, 255},
              p \in {36, 37} }
          \cup { Scenario(1536, <<code, z, 0>>, 66, 7, 253, p) :
                   code \in {6, 70, 38, 102}, z \in {16, 17, 62, 145},
                   p \in {36, 37} }
        IndirectScenarios ==
          { Scenario(1536, <<160, y, 145, z, 0>>, 66, 7, 253, 36) :
              y \in {0, 1, 200, 255}, z \in {6, 61, 75, 227, 255} }
          \cup { Scenario(1536, <<129, z, 0>>, 66, 7, 253, 36) :
                   z \in {255, 54, 248, 247} }
    IN  IndirectScenarios \cup ShiftScenarios \cup SubScenarios \cup LoopScenarios \cup JumpScenarios \cup CallScenarios \cup StackScenarios
            \cup BranchScenarios \cup PullScenarios \cup AddScenarios

\* the image the bus of a run is constructed with
RunRom == [len |-> 16384, fill |-> 7, bytes |-> Zeroed]

\* run_callback has just been entered
InitRun ==
    \E sc \in RunScenarios :
        /\ register_a = sc.a
        /\ register_x = sc.x
        /\ register_y = sc.y
        /\ stack_pointer = sc.sp
        /\ program_counter = sc.pc
        /\ status_register = sc.p
        /\ memory = Zeroed
        /\ cpu_vram = CloneFromSlice(DataImage, sc.pc, sc.program)
        /\ prg_rom = RunRom
        /\ panic = NoPanic
        /\ stdout = <<>>
        /\ running = TRUE
        /\ overflow_checks \in BOOLEAN
        /\ fetches = 0
        /\ observed = <<>>
        /\ ppu = PPU_new_empty_rom
        /\ last = [op |-> "run_callback", addr |-> sc.pc, data |-> 0, ret |-> 0,
                   program |-> sc.program, entry_a |-> sc.a, entry_x |-> sc.x]
        /\ steps = 0

NextRun == Step

SpecRun == InitRun /\ [][NextRun]_vars

\* ------------------------------------------------------ a PPU under writes
\* the number of register writes a caller makes to one PPU
MaxPpuOps == 4

ControlBytes == {0, 4}

AddressBytes == {35, 5, 47, 255, 63}

DataBytes == {102}

\* the graphics ROM and the mirroring a PPU is constructed with
Mirrorings == {"HORIZONTAL", "VERTICAL"}

\* a PPU has just been constructed, next to a CPU that is not used
InitPPU ==
    /\ register_a = 0
    /\ register_x = 0
    /\ register_y = 0
    /\ stack_pointer = STACK_RESET
    /\ program_counter = 0
    /\ status_register = BitAnd(36, 255)
    /\ memory = Zeroed
    /\ cpu_vram = Zeroed
    /\ prg_rom = RunRom
    /\ panic = NoPanic
    /\ stdout = <<>>
    /\ running = FALSE
    /\ overflow_checks \in BOOLEAN
    /\ fetches = 0
    /\ observed = <<>>
    /\ ppu \in { PPU_new([len |-> 2048, fill |-> 0, bytes |-> Zeroed], mirroring) :
                    mirroring \in Mirrorings }
    /\ last = [op |-> "PPU::new", addr |-> 0, data |-> 0, ret |-> 0,
               program |-> <<>>, entry_a |-> 0, entry_x |-> 0]
    /\ steps = 0

\* the caller holds the PPU and no call has panicked
PpuIdle == panic = NoPanic /\ steps < MaxPpuOps

\* ppu.write_to_control(value)
WriteToControl ==
    \E value \in ControlBytes :
        /\ PpuIdle
        /\ Commit(write_to_control(Cur, value))
        /\ Called("write_to_control", 0, value, 0, <<>>)

\* ppu.write_to_address(value)
WriteToAddress ==
    \E value \in AddressBytes :
        /\ PpuIdle
        /\ Commit(write_to_address(Cur, value))
        /\ Called("write_to_address", 0, value, 0, <<>>)

\* ppu.write_to_data(value); `addr` records the address register it found
WriteToData ==
    \E value \in DataBytes :
        /\ PpuIdle
        /\ Commit(write_to_data(Cur, value))
        /\ Called("write_to_data", AddressRegister_get(ppu.address), value, 0, <<>>)

NextPPU ==
    \/ WriteToControl
    \/ WriteToAddress
    \/ WriteToData

SpecPPU == InitPPU /\ [][NextPPU]_vars

\* ------------------------------- specification of the PPU's data port
\* The caller of a PPU built on an 8 KiB graphics ROM, with bytes already in
\* VRAM and in the palette (`vram` and `palette_table` are public fields, set
\* as the tests of ppu/mod.rs set them), writes the control and address
\* registers, reads and writes the data port and reads the status.
DataAddressBytes == {36, 5, 63, 16, 99, 48}

InitPpuData ==
    LET chr_rom == [len |-> 8192, fill |-> 90,
                    bytes |-> [i \in (1280..1360) \cup (4096..4176) |->
                                 (7 * i + 13) % 256]]
        vram    == [i \in (0..80) \cup (1024..1104) |-> (5 * i + 129) % 256]
        palette == [i \in 0..31 |-> 32 + i]
    IN  /\ register_a = 0
        /\ register_x = 0
        /\ register_y = 0
        /\ stack_pointer = STACK_RESET
        /\ program_counter = 0
        /\ status_register = BitAnd(36, 255)
        /\ memory = Zeroed
        /\ cpu_vram = Zeroed
        /\ prg_rom = RunRom
        /\ panic = NoPanic
        /\ stdout = <<>>
        /\ running = FALSE
        /\ overflow_checks = FALSE
        /\ fetches = 0
        /\ observed = <<>>
        /\ ppu \in { [PPU_new(chr_rom, mirroring) EXCEPT
                          !.vram = vram, !.palette_table = palette] :
                      mirroring \in Mirrorings }
        /\ last = [op |-> "PPU::new", addr |-> 0, data |-> 0, ret |-> 0,
                   program |-> <<>>, entry_a |-> 0, entry_x |-> 0]
        /\ steps = 0

\* ppu.write_to_address(value), value one of `values`
WriteToAddressIn(values) ==
    \E value \in values :
        /\ PpuIdle
        /\ Commit(write_to_address(Cur, value))
        /\ Called("write_to_address", 0, value, 0, <<>>)

\* ppu.read_from_data(); `addr` records the address register it found
ReadFromData ==
    /\ PpuIdle
    /\ Commit(read_from_data(Cur).m)
    /\ Called("read_from_data", AddressRegister_get(ppu.address), 0,
              read_from_data(Cur).val, <<>>)

\* ppu.read_from_status()
ReadFromStatus ==
    /\ PpuIdle
    /\ Commit(read_from_status(Cur).m)
    /\ Called("read_from_status", 0, 0, read_from_status(Cur).val, <<>>)

NextPpuData ==
    \/ WriteToControl
    \/ WriteToAddressIn(DataAddressBytes)
    \/ WriteToData
    \/ ReadFromData
    \/ ReadFromStatus

SpecPpuData == InitPpuData /\ [][NextPpuData]_vars

\* ----------------------------- specification of the PPU's latched registers
\* The caller of PPU::new_empty_rom() writes the address and the scroll
\* registers, reads the status, and vblank starts and ends.
LatchBytes == {33, 5}

InitPpuNew ==
    /\ register_a = 0
    /\ register_x = 0
    /\ register_y = 0
    /\ stack_pointer = STACK_RESET
    /\ program_counter = 0
    /\ status_register = BitAnd(36, 255)
    /\ memory = Zeroed
    /\ cpu_vram = Zeroed
    /\ prg_rom = RunRom
    /\ panic = NoPanic
    /\ stdout = <<>>
    /\ running = FALSE
    /\ overflow_checks = FALSE
    /\ fetches = 0
    /\ observed = <<>>
    /\ ppu = PPU_new_empty_rom
    /\ last = [op |-> "PPU::new_empty_rom", addr |-> 0, data |-> 0, ret |-> 0,
               program |-> <<>>, entry_a |-> 0, entry_x |-> 0]
    /\ steps = 0

\* ppu.write_to_scroll(value)
WriteToScroll ==
    \E value \in LatchBytes :
        /\ PpuIdle
        /\ Commit(write_to_scroll(Cur, value))
        /\ Called("write_to_scroll", 0, value, 0, <<>>)

\* ppu.status.set_vblank_status(value)
SetVblankStatus ==
    \E value \in BOOLEAN :
        /\ PpuIdle
        /\ Commit([Cur EXCEPT !.ppu.status =
                       StatusRegister_set_vblank_status(@, value)])
        /\ Called("set_vblank_status", 0, IF value THEN 1 ELSE 0, 0, <<>>)

NextPpuLatch ==
    \/ WriteToAddressIn(LatchBytes)
    \/ WriteToScroll
    \/ ReadFromStatus
    \/ SetVblankStatus

SpecPpuLatch == InitPpuNew /\ [][NextPpuLatch]_vars

\* ------------------------------------------------ specification of the OAM
\* The caller of PPU::new_empty_rom() sets the OAM pointer, writes and reads
\* OAM bytes and copies 256-byte blocks into the OAM.
OamAddrs == {16, 255, 254}

OamBytes == {102, 119}

\* the block of test_oam_dma, and a block of 256 distinct bytes
OamBlocks ==
    { [i \in 1..256 |-> IF i = 1 THEN 119 ELSE IF i = 256 THEN 136 ELSE 102],
      [i \in 1..256 |-> (i + 70) % 256] }

\* ppu.write_to_oam_addr(value)
WriteToOamAddr ==
    \E value \in OamAddrs :
        /\ PpuIdle
        /\ Commit(write_to_oam_addr(Cur, value))
        /\ Called("write_to_oam_addr", 0, value, 0, <<>>)

\* ppu.write_to_oam_data(value); `addr` records the OAM pointer it found
WriteToOamData ==
    \E value \in OamBytes :
        /\ PpuIdle
        /\ Commit(write_to_oam_data(Cur, value))
        /\ Called("write_to_oam_data", ppu.oam_addr, value, 0, <<>>)

\* ppu.read_from_oam_data()
ReadFromOamData ==
    /\ PpuIdle
    /\ Commit(read_from_oam_data(Cur).m)
    /\ Called("read_from_oam_data", ppu.oam_addr, 0, read_from_oam_data(Cur).val, <<>>)

\* ppu.write_to_oam_dma(&data); `program` records the block
WriteToOamDma ==
    \E data \in OamBlocks :
        /\ PpuIdle
        /\ Commit(write_to_oam_dma(Cur, data))
        /\ Called("write_to_oam_dma", ppu.oam_addr, 0, 0, data)

NextOam ==
    \/ WriteToOamAddr
    \/ WriteToOamData
    \/ ReadFromOamData
    \/ WriteToOamDma

SpecOam == InitPpuNew /\ [][NextOam]_vars

\* ------------------------------------------------------------------ claims
\* this step is the call `op` made by the caller
IsCall(op) == last'.op = op /\ steps' = steps + 1

\* the addresses of the RAM region that select the same cell as addr
RamImages(addr) == { (addr % 2048) + 2048 * j : j \in 0..3 }

\* C1: after a bus write of v at an address a of 0x0000-0x1FFF, a read of
\* every address of that region with the same low 11 bits returns v, and no
\* RAM cell other than the one at (a & 0x07FF) has changed.  Every address
\* is written on the bus as constructed, and the writes the caller makes
\* later are checked as they return.
C1_RamWriteReadMirrors ==
    /\ [](steps = 0 =>
            \A a \in 0..8191, v \in WriteBytes :
               LET w == m_write(Cur, a, v)
               IN  /\ Live(w)
                   /\ \A a2 \in RamImages(a) : m_read(w, a2).val = v
                   /\ \A i \in (DOMAIN cpu_vram) \cup (DOMAIN w.cpu_vram) :
                         i # a % 2048 => Cell(w.cpu_vram, i) = Cell(cpu_vram, i)
                   /\ DOMAIN w.cpu_vram \subseteq 0..2047)
    /\ [][ (IsCall("m_write") /\ last'.addr \in 0..8191) =>
             /\ panic' = NoPanic
             /\ \A a2 \in RamImages(last'.addr) :
                   /\ a2 \in 0..8191
                   /\ BitAnd(a2, 2047) = BitAnd(last'.addr, 2047)
                   /\ m_read(Cur', a2).val = last'.data
             /\ \A i \in (DOMAIN cpu_vram) \cup (DOMAIN cpu_vram') :
                   i # BitAnd(last'.addr, 2047) => Cell(cpu_vram', i) = Cell(cpu_vram, i)
             /\ DOMAIN cpu_vram' \subseteq 0..2047 ]_vars

\* C1 witness: a write through the image at 0x0810 is read back at 0x0010
C1_Witness ==
    /\ last.op = "m_write" /\ last.addr = 2064 /\ last.data = 102
    /\ panic = NoPanic
    /\ m_read(Cur, 16).val = 102
    /\ m_read(Cur, 6160).val = 102

\* C2: write16(addr, v) followed by read16(addr) returns v when addr and
\* addr + 1 are both RAM: the low byte of v is at addr, the high byte at
\* addr + 1.
C2_Write16Read16RoundTrip ==
    (last.op = "m_write_u16" /\ last.addr \in 0..8190) =>
        /\ panic = NoPanic
        /\ m_read(Cur, last.addr).val = last.data % 256
        /\ m_read(Cur, last.addr + 1).val = last.data \div 256
        /\ m_read_u16(Cur, last.addr).val = last.data

\* C3: load(program) completes, and after the reset that follows it the
\* program counter and the reset vector hold the load address and the
\* program is read back from the load address on.
C3_LoadThenReset ==
    last.op = "load" =>
        /\ panic = NoPanic
        /\ LET m2 == reset(Cur) IN
            /\ m2.panic = NoPanic
            /\ m2.program_counter = 24576
            /\ m_read_u16(m2, 65532).val = 24576
            /\ \A i \in 1..Len(last.program) :
                  m_read(m2, 24576 + i - 1).val = last.program[i]

\* load_and_run(program) is over: it returned or it panicked
Halted(program) == last.op = "load_and_run" /\ last.program = program /\ ~running

\* C4: load_and_run([0xA9, v, 0x00]) halts with accumulator v, Zero set iff
\* v = 0 and Negative set iff bit 7 of v is set.
C4_LdaImmediate ==
    \A v \in 0..255 :
        Halted(<<169, v, 0>>) =>
            /\ panic = NoPanic
            /\ register_a = v
            /\ Contains(status_register, ZERO) <=> (v = 0)
            /\ Contains(status_register, NEGATIVE) <=> (v >= 128)

\* C5: the registers assigned before load_and_run are what the program
\* starts from: X = 0xFF and [0xE8, 0xE8, 0x00] halts with X = 1; A = a and
\* [0xAA, 0x00] halts with X = a.
C5_RegistersSurviveLoadAndRun ==
    /\ (Halted(<<232, 232, 0>>) /\ last.entry_x = 255) =>
            (panic = NoPanic /\ register_x = 1)
    /\ Halted(<<170, 0>>) =>
            (panic = NoPanic /\ register_x = last.entry_a)

\* C6: load_and_run([0xA9, v, 0xAA, 0xE8, 0x00]) halts with accumulator v,
\* X = (v + 1) mod 256, Zero set iff X = 0, Negative set iff bit 7 of X is set.
C6_LdaTaxInx ==
    \A v \in 0..255 :
        Halted(<<169, v, 170, 232, 0>>) =>
            /\ panic = NoPanic
            /\ register_a = v
            /\ register_x = (v + 1) % 256
            /\ Contains(status_register, ZERO) <=> (register_x = 0)
            /\ Contains(status_register, NEGATIVE) <=> (register_x >= 128)

\* C7: a byte written to 0x0010 before load_and_run([0xA5, 0x10, 0x00]) is
\* the accumulator when the program halts.
C7_LdaZeroPageSeesEarlierWrite ==
    Halted(<<165, 16, 0>>) =>
        /\ panic = NoPanic
        /\ register_a = Cell(cpu_vram, 16)

\* the registers and the arrays other than the report on stdout
Stored == <<register_a, register_x, register_y, stack_pointer, program_counter,
            status_register, memory, cpu_vram, prg_rom>>

\* C8: with a 16 KiB image a read at a in 0x8000-0xBFFF and the read at
\* a + 0x4000 both return prg_rom[a - 0x8000]; with a 32 KiB image a read at
\* a in 0x8000-0xFFFF returns prg_rom[a - 0x8000]; no read indexes outside
\* the image.  Every address is read on the bus as constructed, and the
\* reads the caller makes later are checked as they return.
C8_PrgRomWindow ==
    /\ (steps = 0 /\ prg_rom.len = 16384) =>
          \A a \in 32768..49151 :
             LET r1 == m_read(Cur, a)
                 r2 == m_read(Cur, a + 16384)
             IN  /\ Live(r1.m) /\ Live(r2.m)
                 /\ r1.val = RomByte(prg_rom, a - 32768)
                 /\ r2.val = RomByte(prg_rom, a - 32768)
    /\ (steps = 0 /\ prg_rom.len = 32768) =>
          \A a \in 32768..65535 :
             LET r == m_read(Cur, a)
             IN  Live(r.m) /\ r.val = RomByte(prg_rom, a - 32768)
    /\ (last.op = "m_read" /\ last.addr \in 32768..65535) =>
          /\ panic = NoPanic
          /\ prg_rom.len = 32768 => last.ret = RomByte(prg_rom, last.addr - 32768)
          /\ (prg_rom.len = 16384 /\ last.addr < 49152) =>
                last.ret = RomByte(prg_rom, last.addr - 32768)
          /\ (prg_rom.len = 16384 /\ last.addr >= 49152) =>
                last.ret = RomByte(prg_rom, last.addr - 49152)

\* C8 witness: a read at 0xC000 of a 16 KiB image returned the first byte
\* of the image, which is not the byte a 32 KiB image would hold there
C8_Witness ==
    /\ last.op = "m_read" /\ last.addr = 49152
    /\ prg_rom.len = 16384
    /\ panic = NoPanic
    /\ last.ret = RomByte(prg_rom, 0)
    /\ last.ret # RomByte(prg_rom, 16384)

\* C9: a bus write, 8-bit or 16-bit, at an address of 0x8000-0xFFFF panics
\* and changes neither RAM nor the program image; no step of any operation
\* changes the program image.  Every address is written on the bus as
\* constructed, and the writes the caller makes later are checked as they
\* return.
C9_RomWriteIsFatal ==
    /\ [](steps = 0 =>
            \A a \in 32768..65535 :
               LET w8  == m_write(Cur, a, 255)
                   w16 == m_write_u16(Cur, a, 4660)
               IN  /\ w8.panic = "Attempted to write to ROM space"
                   /\ w16.panic = "Attempted to write to ROM space"
                   /\ w8.cpu_vram = cpu_vram /\ w8.prg_rom = prg_rom
                   /\ w16.cpu_vram = cpu_vram /\ w16.prg_rom = prg_rom)
    /\ [][ /\ prg_rom' = prg_rom
           /\ ((IsCall("m_write") \/ IsCall("m_write_u16")) /\ last'.addr \in 32768..65535) =>
                 /\ panic' = "Attempted to write to ROM space"
                 /\ cpu_vram' = cpu_vram ]_vars

\* C9 witness: a 16-bit write at 0x8000 panicked after earlier RAM writes
C9_Witness ==
    /\ last.op = "m_write_u16" /\ last.addr = 32768
    /\ panic = "Attempted to write to ROM space"
    /\ cpu_vram # Zeroed

\* C10: a bus read at an address of 0x4000-0x7FFF returns 0 and a bus write
\* there is dropped: neither panics, and no register and no byte of RAM, of
\* the program image or of any other array changes.  Every address is tried
\* on the bus as constructed, and the calls the caller makes later are
\* checked as they return.
C10_UnmappedAccess ==
    /\ [](steps = 0 =>
            \A a \in 16384..32767 :
               LET r == m_read(Cur, a)
                   w == m_write(Cur, a, 255)
               IN  /\ r.val = 0 /\ Live(r.m) /\ Live(w)
                   /\ [r.m EXCEPT !.stdout = <<>>] = [Cur EXCEPT !.stdout = <<>>]
                   /\ [w EXCEPT !.stdout = <<>>] = [Cur EXCEPT !.stdout = <<>>])
    /\ [][ /\ (IsCall("m_read") /\ last'.addr \in 16384..32767) =>
                (last'.ret = 0 /\ panic' = NoPanic /\ UNCHANGED Stored)
           /\ (IsCall("m_write") /\ last'.addr \in 16384..32767) =>
                (panic' = NoPanic /\ UNCHANGED Stored) ]_vars

\* C10 witness: a write at 0x4000 was reported and dropped while RAM held
\* bytes, and the caller can go on
C10_Witness ==
    /\ last.op = "m_write" /\ last.addr = 16384 /\ last.data = 255
    /\ panic = NoPanic
    /\ cpu_vram # Zeroed
    /\ stdout # <<>>
    /\ ~running

\* C11: a bus read or write at an address of 0x2000-0x3FFF is delegated to
\* the register that the low 3 bits of the address select, and it completes:
\* the call returns to its caller instead of ending the process.
C11_PpuRegisterAccessCompletes ==
    ((last.op = "m_read" \/ last.op = "m_write") /\ last.addr \in 8192..16383) =>
        panic = NoPanic


\* the register contents a reset is tried from: <<A, X, Y, SP, status, PC>>
ResetFrom ==
    { <<0, 0, 0, 253, 36, 0>>, <<255, 1, 128, 0, 255, 65535>>,
      <<10, 255, 7, 255, 0, 1536>>, <<128, 64, 255, 252, 195, 32768>> }

\* what reset leaves: the registers cleared, the stack pointer and the status
\* at their reset values, the program counter read from the reset vector,
\* and every array as it was
ResetState(before, after) ==
    /\ after.panic = NoPanic
    /\ after.register_a = 0 /\ after.register_x = 0 /\ after.register_y = 0
    /\ after.stack_pointer = 253
    /\ after.status_register = 36
    /\ after.program_counter =
          m_read(before, 65532).val + 256 * m_read(before, 65533).val
    /\ after.cpu_vram = before.cpu_vram
    /\ after.memory = before.memory
    /\ after.prg_rom = before.prg_rom

Fetching ==
    /\ running /\ panic = NoPanic /\ fetches < MaxInstr
    /\ Live(m_read(Cur, program_counter).m)

\* the opcode byte it fetches
NextCode == m_read(Cur, program_counter).val

\* the byte that follows the opcode byte
Operand == m_read(Cur, (program_counter + 1) % 65536).val

\* C13: the run loop returns only on the opcode 0x00 or on an opcode byte
\* without descriptor; the fetch of a byte without descriptor returns from
\* the loop normally, with the program counter advanced past the byte and
\* every other register and every byte of memory unchanged.
C13_UnknownOpcodeReturns ==
    [][ /\ (running /\ ~running') => (NextCode = 0 \/ NextCode \notin DOMAIN OPCODES_MAP)
        /\ (Fetching /\ NextCode \notin DOMAIN OPCODES_MAP) =>
              /\ panic' = NoPanic
              /\ ~running'
              /\ program_counter' = (program_counter + 1) % 65536
              /\ UNCHANGED <<register_a, register_x, register_y, stack_pointer,
                             status_register, memory, cpu_vram, prg_rom>> ]_vars


\* C14: the observer of run_callback is called once after each instruction
\* that completes, when the program counter is past the instruction and
\* before the next opcode byte is fetched; it is not called for the fetch
\* that halts the loop (nor for one that ends the process), so when the loop
\* has returned the observer has been called once per instruction executed
\* before the halt.
C14_ObserverOncePerInstruction ==
    /\ [](/\ Len(observed) <= fetches
          /\ (panic = NoPanic /\ running) => Len(observed) = fetches
          /\ (panic = NoPanic /\ ~running /\ last.op = "run_callback") =>
                Len(observed) = fetches - 1
          /\ \A k \in 1..Len(observed) : observed[k].fetches = k)
    /\ [][ Fetching =>
             /\ fetches' = fetches + 1
             /\ IF panic' = NoPanic /\ running'
                THEN observed' = Append(observed, [pc |-> program_counter',
                                                   fetches |-> fetches + 1])
                ELSE observed' = observed ]_vars

\* C14 witness: LDA, TAX, INX and the halting 0x00 were fetched, and the
\* observer was called three times, the last time with the program counter
\* at the 0x00
C14_Witness ==
    /\ last.program = <<169, 5, 170, 232, 0>>
    /\ ~running /\ panic = NoPanic
    /\ fetches = 4
    /\ Len(observed) = 3
    /\ observed[1].pc = 1538 /\ observed[2].pc = 1539 /\ observed[3].pc = 1540


\* C15: JMP (p) sets the program counter to read(p) | (read(p & 0xFF00) << 8)
\* if the low byte of p is 0xFF (a pointer of 0x30FF takes its high byte
\* from 0x3000), and to read(p) | (read(p + 1) << 8) otherwise.
C15_JmpIndirect ==
    [][ (Fetching /\ NextCode = 108) =>
            LET p  == m_read_u16(Cur, (program_counter + 1) % 65536).val
                lo == m_read(Cur, p).val
                hi == IF p % 256 = 255 THEN m_read(Cur, (p \div 256) * 256).val
                      ELSE m_read(Cur, (p + 1) % 65536).val
            IN  /\ panic' = NoPanic
                /\ program_counter' = lo + 256 * hi ]_vars


\* the 16-bit word in the stack page whose low byte is at 0x0100 + s and
\* whose high byte is one cell above it
StackWord(m, s) ==
    Cell(m.cpu_vram, 256 + s) + 256 * Cell(m.cpu_vram, 256 + ((s + 1) % 256))

\* C16: JSR (0x20) at address p pushes p + 2, high byte first, and sets the
\* program counter to its operand; RTS (0x60) pops the 16-bit value and adds
\* 1: after a JSR at p, the RTS of the subroutine resumes at p + 3 with the
\* stack pointer the JSR found.
C16_JsrRts ==
    /\ [][ (Fetching /\ NextCode = 32) =>
             /\ panic' = NoPanic
             /\ stack_pointer' = (stack_pointer + 254) % 256
             /\ Cell(cpu_vram', 256 + stack_pointer) = ((program_counter + 2) % 65536) \div 256
             /\ Cell(cpu_vram', 256 + ((stack_pointer + 255) % 256))
                    = (program_counter + 2) % 256
             /\ program_counter' = m_read_u16(Cur, (program_counter + 1) % 65536).val
          ]_vars
    /\ [][ (Fetching /\ NextCode = 96) =>
             /\ panic' = NoPanic
             /\ stack_pointer' = (stack_pointer + 2) % 256
             /\ program_counter' =
                   (StackWord(Cur, (stack_pointer + 1) % 256) + 1) % 65536 ]_vars
    /\ []((last.program = <<32, 5, 6, 0, 234, 96>> /\ fetches = 2) =>
            (panic = NoPanic /\ program_counter = 1539))


\* C17: the stack is last-in first-out in page 0x0100-0x01FF: a push of v
\* with stack pointer s stores v at 0x0100 + s and leaves the stack pointer
\* at (s - 1) mod 256; the pop that follows puts the stack pointer back to s
\* and returns the byte at 0x0100 + s, so PHA then PLA restores the
\* accumulator.
C17_StackLifo ==
    /\ [][ (Fetching /\ NextCode = 72) =>
             /\ panic' = NoPanic
             /\ Cell(cpu_vram', 256 + stack_pointer) = register_a
             /\ stack_pointer' = (stack_pointer + 255) % 256
             /\ \A i \in DOMAIN cpu_vram' :
                   i # 256 + stack_pointer => Cell(cpu_vram', i) = Cell(cpu_vram, i)
          ]_vars
    /\ [][ (Fetching /\ NextCode = 104) =>
             /\ panic' = NoPanic
             /\ stack_pointer' = (stack_pointer + 1) % 256
             /\ register_a' = Cell(cpu_vram, 256 + stack_pointer')
             /\ cpu_vram' = cpu_vram ]_vars
    /\ []((last.program = <<72, 104, 0>> /\ fetches >= 2) =>
            (panic = NoPanic /\ register_a = last.entry_a))


\* the condition a branch opcode tests, on the status bits p
BranchTaken(code, p) ==
    CASE code = 144 -> ~Contains(p, CARRY)
      [] code = 176 -> Contains(p, CARRY)
      [] code = 240 -> Contains(p, ZERO)
      [] code = 48  -> Contains(p, NEGATIVE)
      [] code = 208 -> ~Contains(p, ZERO)
      [] code = 16  -> ~Contains(p, NEGATIVE)
      [] code = 80  -> ~Contains(p, OVERFLOW)
      [] code = 112 -> Contains(p, OVERFLOW)

\* C18: a conditional branch at address p with operand byte o leaves the
\* program counter at (p + 2 + signed8(o)) mod 65536 if its condition holds,
\* for every o, 0xFF and 0xFE included, and at p + 2 if it does not; it
\* changes nothing else.
C18_Branch ==
    [][ (Fetching /\ NextCode \in BranchCodes) =>
            LET o == IF Operand >= 128 THEN Operand - 256 ELSE Operand
            IN  /\ panic' = NoPanic
                /\ program_counter' =
                      IF BranchTaken(NextCode, status_register)
                      THEN (program_counter + 2 + o) % 65536
                      ELSE (program_counter + 2) % 65536
                /\ UNCHANGED <<register_a, register_x, register_y, stack_pointer,
                               status_register, memory, cpu_vram, prg_rom>> ]_vars


\* C19: after PLP (0x28) or RTI (0x40) the status register has Break clear
\* and Break2 set, and every other bit is the bit of the byte b pulled from
\* the stack, the byte at 0x0100 + ((s + 1) mod 256).
C19_PulledStatus ==
    [][ (Fetching /\ NextCode \in {40, 64}) =>
            LET b == Cell(cpu_vram, 256 + ((stack_pointer + 1) % 256))
            IN  /\ panic' = NoPanic
                /\ ~Contains(status_register', BREAK)
                /\ Contains(status_register', BREAK2)
                /\ BitAnd(status_register', 207) = BitAnd(b, 207) ]_vars


\* the VRAM cell an address of 0x2000-0x2FFF selects: with VERTICAL
\* mirroring 0x2000 and 0x2800 are one cell, with HORIZONTAL mirroring
\* 0x2000 and 0x2400 are one cell and 0x2800 and 0x2C00 are another
MirroredCell(mirroring, a) ==
    LET i == a - 8192
    IN  IF mirroring = "VERTICAL" THEN i % 2048
        ELSE (i % 1024) + (IF i >= 2048 THEN 1024 ELSE 0)

\* the three writes of C20 made to the PPU of m: the address a, high byte
\* first, then the byte v
WrittenThrough(m, a, v) ==
    write_to_data(write_to_address(write_to_address(m, a \div 256), a % 256), v)

\* what the three writes leave
VramWritten(m, a, v) ==
    LET w    == WrittenThrough(m, a, v)
        cell == MirroredCell(m.ppu.mirroring, a)
        step == IF (m.ppu.control \div 4) % 2 = 1 THEN 32 ELSE 1
    IN  /\ w.panic = NoPanic
        /\ Cell(w.ppu.vram, cell) = v
        /\ \A i \in (DOMAIN w.ppu.vram) \cup (DOMAIN m.ppu.vram) :
              i # cell => Cell(w.ppu.vram, i) = Cell(m.ppu.vram, i)
        /\ DOMAIN w.ppu.vram \subseteq 0..2047
        /\ AddressRegister_get(w.ppu.address) = (a + step) % 16384
        /\ w.ppu.address.hi_ptr

\* the addresses tried in every state: the first and the last address of
\* each nametable, the address 0x2305, and addresses that carry into the
\* high byte
VramAddrs ==
    {8192, 8965, 9215, 9216, 10239, 10240, 11263, 11264, 12000, 12256, 12287}

\* C20: with the latch in its first-half state, write_address(a >> 8),
\* write_address(a & 0xFF), write_data(v) stores v at vram[mirror(a)] for
\* every a of 0x2000-0x2FFF (0x66 at 0x0305 for a = 0x2305 with HORIZONTAL
\* mirroring), changes no other byte of VRAM and leaves the address
\* register at (a + step) mod 0x4000, where step is 32 if bit 2 of the
\* control register is set and 1 otherwise.  Every address is tried on the
\* PPU as constructed, for both steps; the addresses of VramAddrs are tried
\* in every state with the latch in its first-half state; and every
\* write_data the caller makes is checked as it returns.
C20_VramWrite ==
    /\ [](steps = 0 =>
            \A a \in 8192..12287, c \in ControlBytes :
                VramWritten(write_to_control(Cur, c), a, 102))
    /\ []((panic = NoPanic /\ ppu.address.hi_ptr) =>
            \A a \in VramAddrs, v \in {0, 102, 255} : VramWritten(Cur, a, v))
    /\ [][ (IsCall("write_to_data") /\ last'.addr \in 8192..12287) =>
             LET cell == MirroredCell(ppu.mirroring, last'.addr)
                 step == IF (ppu.control \div 4) % 2 = 1 THEN 32 ELSE 1
             IN  /\ panic' = NoPanic
                 /\ Cell(ppu'.vram, cell) = last'.data
                 /\ \A i \in (DOMAIN ppu.vram) \cup (DOMAIN ppu'.vram) :
                       i # cell => Cell(ppu'.vram, i) = Cell(ppu.vram, i)
                 /\ AddressRegister_get(ppu'.address) = (last'.addr + step) % 16384
          ]_vars

\* C20 witness: the writes 0x23, 0x05 and 0x66 to a PPU with HORIZONTAL
\* mirroring stored 0x66 at VRAM index 0x0305 and left the address register
\* at 0x2306
C20_Witness ==
    /\ last.op = "write_to_data" /\ last.addr = 8965 /\ last.data = 102
    /\ ppu.mirroring = "HORIZONTAL"
    /\ panic = NoPanic
    /\ Cell(ppu.vram, 773) = 102
    /\ DOMAIN ppu.vram = {773}
    /\ AddressRegister_get(ppu.address) = 8966

\* the PPU after the caller has read the status and written the two bytes
\* of addr to the address register
PointedAt(m, addr) ==
    write_to_address(write_to_address(read_from_status(m).m, addr \div 256),
                     addr % 256)

\* reading the byte at addr back through the data port: the address
\* register is pointed at addr and a data read fills the buffer with the
\* byte there; it is pointed at addr again and the next data read returns
\* the buffer
ReadBack(m, addr) ==
    read_from_data(PointedAt(read_from_data(PointedAt(m, addr)).m, addr))

\* the PPU after a data write of v with the address register pointed at addr
WrittenAt(m, addr, v) == write_to_data(PointedAt(m, addr), v)

\* the nametable address that the mirroring mode pairs with addr
NametableAlias(mirroring, addr) ==
    IF mirroring = "HORIZONTAL"
    THEN (IF (addr \div 1024) % 2 = 0 THEN addr + 1024 ELSE addr - 1024)
    ELSE (IF (addr \div 2048) % 2 = 0 THEN addr + 2048 ELSE addr - 2048)

\* C21: for every offset k < 0x400, in Horizontal mode 0x2000+k and 0x2400+k
\* map to one VRAM cell, 0x2800+k and 0x2C00+k to one cell, and the two cells
\* differ; in Vertical mode 0x2000+k and 0x2800+k map to one cell, 0x2400+k
\* and 0x2C00+k to one cell, and the two cells differ; a byte written through
\* one alias is read back through the other.  The mapping and the write and
\* read back are checked for every nametable address on the PPU as
\* constructed, and the read back again after every data write the caller
\* makes to a nametable address.
C21_NametableMirroring ==
    /\ steps = 0 =>
         \A k \in 0..1023 :
            LET A == mirror_vram_address(Cur, 8192 + k)
                B == mirror_vram_address(Cur, 9216 + k)
                C == mirror_vram_address(Cur, 10240 + k)
                D == mirror_vram_address(Cur, 11264 + k)
            IN  /\ {A, B, C, D} \subseteq 0..2047
                /\ ppu.mirroring = "HORIZONTAL" => (A = B /\ C = D /\ A # C)
                /\ ppu.mirroring = "VERTICAL" => (A = C /\ B = D /\ A # B)
                /\ \A base \in {8192, 9216, 10240, 11264} :
                      LET w == WrittenAt(Cur, base + k, 102)
                          r == ReadBack(w, NametableAlias(ppu.mirroring, base + k))
                      IN  Live(r.m) /\ r.val = 102
    /\ (panic = NoPanic /\ last.op = "write_to_data"
          /\ last.addr \in 8192..12287) =>
         LET r == ReadBack(Cur, NametableAlias(ppu.mirroring, last.addr))
         IN  Live(r.m) /\ r.val = last.data

\* the caller in Horizontal mode has written 0x66 at 0x2405, which is read
\* back through 0x2005
C21_Witness ==
    /\ panic = NoPanic
    /\ ppu.mirroring = "HORIZONTAL"
    /\ last.op = "write_to_data" /\ last.addr = 9221 /\ last.data = 102
    /\ Cell(ppu.vram, 5) = 102
    /\ ReadBack(Cur, 8197).val = 102

\* C22: read_from_status returns the status byte as it was before the call,
\* bit 7 set iff vblank was set, and leaves the vblank flag clear and the
\* other seven status bits as they were; no other call than
\* set_vblank_status(true) sets the flag, so a second read_from_status with
\* no vblank set in between returns bit 7 clear.  The read is also applied
\* to each of the 256 status bytes on the PPU as constructed.
C22_StatusRead ==
    /\ [](steps = 0 =>
            \A s \in 0..255 :
               LET r == read_from_status([Cur EXCEPT !.ppu.status = s])
               IN  /\ r.val = s
                   /\ r.m.ppu.status = s % 128
                   /\ read_from_status(r.m).val = s % 128)
    /\ [][/\ IsCall("read_from_status") =>
               /\ last'.ret = ppu.status
               /\ (last'.ret \div 128 = 1) <=> Contains(ppu.status, VBLANK_STARTED)
               /\ ppu'.status = ppu.status % 128
               /\ read_from_status(Cur').val \div 128 = 0
          /\ ~(IsCall("set_vblank_status") /\ last'.data = 1) =>
               (ppu'.status \div 128 = 1 => ppu.status \div 128 = 1)]_vars

\* a status read has returned the vblank flag set and left it clear, and
\* the status read that follows returns it clear
C22_Witness ==
    /\ last.op = "read_from_status" /\ last.ret = 128
    /\ ppu.status = 0
    /\ read_from_status(Cur).val = 0

\* m after n scroll writes of the byte v
RECURSIVE ScrollWrites(_, _, _)
ScrollWrites(m, n, v) ==
    IF n = 0 THEN m ELSE ScrollWrites(write_to_scroll(m, v), n - 1, v)

\* m after n address writes of the byte v
RECURSIVE AddressWrites(_, _, _)
AddressWrites(m, n, v) ==
    IF n = 0 THEN m ELSE AddressWrites(write_to_address(m, v), n - 1, v)

\* C23: a status read, whatever address and scroll writes came before it,
\* leaves both latches in the first-half state and changes neither the value
\* of the address register nor the two scroll values; the next address write
\* (of any byte v, the register keeping 14 bits) then sets the high byte and
\* leaves the low byte, and the next scroll write sets scroll X and leaves
\* scroll Y, whether or not writes of the other register come in between.
C23_StatusReadResetsLatches ==
    [][IsCall("read_from_status") =>
         /\ ppu'.address.hi_ptr = TRUE
         /\ ppu'.scroll.latch = FALSE
         /\ ppu'.address.value = ppu.address.value
         /\ ppu'.scroll.scroll_x = ppu.scroll.scroll_x
         /\ ppu'.scroll.scroll_y = ppu.scroll.scroll_y
         /\ \A v \in 0..255, n \in 0..2 :
               LET a == write_to_address(ScrollWrites(Cur', n, 170), v).ppu.address
                   s == write_to_scroll(AddressWrites(Cur', n, 42), v).ppu.scroll
               IN  /\ a.value = <<v % 64, ppu.address.value[2]>>
                   /\ s.scroll_x = v
                   /\ s.scroll_y = ppu.scroll.scroll_y]_vars

\* a status read has come after one address write and one scroll write, and
\* both latches are back in the first-half state
C23_Witness ==
    /\ last.op = "read_from_status"
    /\ ppu.address.value = <<33, 0>> /\ ppu.address.hi_ptr = TRUE
    /\ ppu.scroll.scroll_x = 5 /\ ppu.scroll.latch = FALSE
    /\ write_to_address(Cur, 35).ppu.address.value = <<35, 0>>
    /\ write_to_scroll(Cur, 7).ppu.scroll.scroll_x = 7

\* C24: the scroll and the address register share one write-latch toggle:
\* in every state the next address write targets the high byte exactly when
\* the next scroll write targets X, and an address write that follows one
\* scroll write on a new PPU writes the low byte of the address.
C24_SharedLatch ==
    /\ ppu.address.hi_ptr <=> ~ppu.scroll.latch
    /\ (steps = 1 /\ last.op = "write_to_scroll") =>
          write_to_address(Cur, 5).ppu.address.value = <<0, 5>>

\* the address register of the PPU
PpuAddr == AddressRegister_get(ppu.address)

\* the cell of the palette that a palette address 0x3F00-0x3FFF selects:
\* the 32 cells repeat, and 0x10, 0x14, 0x18, 0x1C are cells 0x00, 0x04,
\* 0x08, 0x0C
PaletteCell(addr) ==
    LET i == (addr - 16128) % 32
    IN  IF i \in {16, 20, 24, 28} THEN i - 16 ELSE i

\* the byte of graphics ROM or VRAM at an address below 0x3000
DataByteAt(addr) ==
    IF addr < 8192 THEN ChrByte(ppu.chr_rom, addr)
    ELSE Cell(ppu.vram, mirror_vram_address(Cur, addr))

\* C25: a data read at an address below 0x3000 returns the content of the
\* read buffer, refills the buffer with the byte at its own address and
\* advances the address register by the step, so that each such read
\* returns the byte the previous one addressed; a data read at a palette
\* address 0x3F00-0x3FFF returns the palette byte of that address and leaves
\* the buffer; no other call changes the buffer.
C25_BufferedRead ==
    [][   /\ (IsCall("read_from_data") /\ PpuAddr < 12288) =>
              /\ panic' = NoPanic
              /\ last'.ret = ppu.internal_buffer
              /\ ppu'.internal_buffer = DataByteAt(PpuAddr)
              /\ AddressRegister_get(ppu'.address) =
                    (PpuAddr + vram_add_increment(ppu.control)) % 16384
          /\ (IsCall("read_from_data") /\ PpuAddr >= 16128) =>
              /\ panic' = NoPanic
              /\ last'.ret = Cell(ppu.palette_table, PaletteCell(PpuAddr))
              /\ ppu'.internal_buffer = ppu.internal_buffer
          /\ ~IsCall("read_from_data") =>
              ppu'.internal_buffer = ppu.internal_buffer]_vars

\* C26: the address register never holds more than 0x3FFF; two address
\* writes hi then lo from the first-half state of the latch leave
\* ((hi << 8) | lo) & 0x3FFF (0x63 then 0x05 leave 0x2305); every data read
\* and every data write turns the value a into (a + step) mod 0x4000.
C26_AddressRegister14Bits ==
    /\ [](PpuAddr <= 16383)
    /\ []((panic = NoPanic /\ ppu.address.hi_ptr) =>
            \A hi \in (IF steps = 0 THEN 0..255 ELSE {99, 255}), lo \in {0, 5, 255} :
               AddressRegister_get(
                   write_to_address(write_to_address(Cur, hi), lo).ppu.address)
                 = BitAnd(BitOr(hi * 256, lo), 16383))
    /\ [][(IsCall("read_from_data") \/ IsCall("write_to_data")) =>
              /\ panic' = NoPanic
              /\ AddressRegister_get(ppu'.address) =
                    (PpuAddr + vram_add_increment(ppu.control)) % 16384]_vars

\* m after write_to_oam_data of each byte of data in order
RECURSIVE OamWrites(_, _)
OamWrites(m, data) ==
    IF ~Live(m) \/ Len(data) = 0 THEN m
    ELSE IF Len(data) = 1 THEN write_to_oam_data(m, data[1])
    ELSE OamWrites(OamWrites(m, SubSeq(data, 1, Len(data) \div 2)),
                   SubSeq(data, Len(data) \div 2 + 1, Len(data)))

\* C27: write_to_oam_data(v) with the OAM pointer at p stores v at oam[p],
\* changes no other OAM byte and leaves the pointer at (p + 1) mod 256;
\* read_from_oam_data returns oam[p] and changes neither the pointer nor the
\* OAM; after write_to_oam_addr(p), n data writes and
\* write_to_oam_addr((p + i) mod 256), read_from_oam_data returns the i-th
\* byte written, for i < n <= 256.
C27_OamReadWrite ==
    /\ [](steps = 0 =>
            \A p \in {0, 16, 200, 255}, n \in {1, 2, 3, 256} :
               LET data == [k \in 1..n |-> (3 * k + 70) % 256]
                   w    == OamWrites(write_to_oam_addr(Cur, p), data)
               IN  \A i \in 0..(n - 1) :
                      LET r == read_from_oam_data(write_to_oam_addr(w, (p + i) % 256))
                      IN  Live(r.m) /\ r.val = data[i + 1])
    /\ [][/\ IsCall("write_to_oam_data") =>
               /\ panic' = NoPanic
               /\ Cell(ppu'.oam_data, ppu.oam_addr) = last'.data
               /\ \A j \in (0..255) \ {ppu.oam_addr} :
                     Cell(ppu'.oam_data, j) = Cell(ppu.oam_data, j)
               /\ ppu'.oam_addr = (ppu.oam_addr + 1) % 256
          /\ IsCall("read_from_oam_data") =>
               /\ panic' = NoPanic
               /\ last'.ret = Cell(ppu.oam_data, ppu.oam_addr)
               /\ ppu' = ppu]_vars

\* the OAM pointer was set to 0x10, 0x66 was written, the pointer was set to
\* 0x10 again and the read returned 0x66
C27_Witness ==
    /\ last.op = "read_from_oam_data" /\ last.addr = 16 /\ last.ret = 102
    /\ steps = 4
    /\ ppu.oam_addr = 16
    /\ Cell(ppu.oam_data, 17) = 0

\* oam holds block[i] at (p + i) mod 256 for every i in 0..255
HoldsBlockFrom(oam, p, block) ==
    /\ \A i \in 0..255 : Cell(oam, (p + i) % 256) = block[i + 1]
    /\ \A j \in 0..255 : \E i \in 0..255 : j = (p + i) % 256

\* C28: write_to_oam_dma(block) with the OAM pointer at p and a block of 256
\* bytes leaves oam[(p + i) mod 256] = block[i] for every i in 0..255, which
\* covers every OAM byte, so each is written once, and leaves the pointer at
\* p.  Checked for every p on the PPU as constructed and on every
\* write_to_oam_dma the caller makes.
C28_OamDma ==
    /\ [](steps = 0 =>
            \A p \in 0..255, block \in OamBlocks :
               LET w == write_to_oam_dma(write_to_oam_addr(Cur, p), block)
               IN  /\ Live(w)
                   /\ HoldsBlockFrom(w.ppu.oam_data, p, block)
                   /\ w.ppu.oam_addr = p)
    /\ [][IsCall("write_to_oam_dma") =>
               /\ panic' = NoPanic
               /\ HoldsBlockFrom(ppu'.oam_data, ppu.oam_addr, last'.program)
               /\ ppu'.oam_addr = ppu.oam_addr]_vars

\* the block of test_oam_dma was copied with the OAM pointer at 0x10: its
\* last byte is at 0x0F, its first at 0x10, and the pointer is at 0x10
C28_Witness ==
    /\ last.op = "write_to_oam_dma" /\ last.addr = 16
    /\ Cell(ppu.oam_data, 15) = 136
    /\ Cell(ppu.oam_data, 16) = 119
    /\ Cell(ppu.oam_data, 17) = 102
    /\ ppu.oam_addr = 16

\* the palette addresses 0x3F10, 0x3F14, 0x3F18, 0x3F1C and the addresses
\* 0x3F00, 0x3F04, 0x3F08, 0x3F0C they are paired with
PaletteAliases == { <<16144 + 4 * k, 16128 + 4 * k>> : k \in 0..3 }

\* C29: a byte written by write_to_data at 0x3F10 + 4k (k in 0..3) is
\* returned by read_from_data at 0x3F00 + 4k and the other way round, and
\* every other palette address of 0x3F00-0x3F1F has a cell of its own: a
\* write at a shows in a read at b only if b is a or the two are paired.
\* Checked for every pair of palette addresses on the PPU as constructed,
\* whose 32 palette cells hold 32 different bytes, and after every data
\* write the caller makes to 0x3F00-0x3F1F.
C29_PaletteMirrors ==
    /\ steps = 0 =>
          \A a \in 16128..16159, b \in 16128..16159 :
             LET w   == WrittenAt(Cur, a, 102)
                 r   == read_from_data(PointedAt(w, b))
                 old == read_from_data(PointedAt(Cur, b))
             IN  /\ Live(w) /\ Live(r.m) /\ Live(old.m)
                 /\ IF a = b \/ <<a, b>> \in PaletteAliases \/ <<b, a>> \in PaletteAliases
                    THEN r.val = 102
                    ELSE r.val = old.val /\ r.val # 102
    /\ (panic = NoPanic /\ last.op = "write_to_data"
          /\ last.addr \in 16128..16159) =>
          \A pair \in PaletteAliases :
             /\ read_from_data(PointedAt(Cur, last.addr)).val = last.data
             /\ last.addr = pair[1] =>
                   read_from_data(PointedAt(Cur, pair[2])).val = last.data
             /\ last.addr = pair[2] =>
                   read_from_data(PointedAt(Cur, pair[1])).val = last.data

\* 0x66 was written at 0x3F10 and a data read at 0x3F00 returns it
C29_Witness ==
    /\ panic = NoPanic
    /\ last.op = "write_to_data" /\ last.addr = 16144 /\ last.data = 102
    /\ Cell(ppu.palette_table, 0) = 102
    /\ Cell(ppu.palette_table, 16) = 48
    /\ read_from_data(PointedAt(Cur, 16128)).val = 102

\* the status byte p with the flag set or cleared
WithFlag(p, flag, value) == IF value THEN Insert(p, flag) ELSE Remove(p, flag)

\* what ADC leaves for the accumulator a, the operand d and the status p:
\* the accumulator and the status of the claim
AdcResult(a, d, p) ==
    LET c      == IF Contains(p, CARRY) THEN 1 ELSE 0
        sum    == a + d + c
        result == sum % 256
        signed == (a \div 128 = d \div 128) /\ (result \div 128 # a \div 128)
    IN  [register_a |-> result,
         status_register |->
            WithFlag(WithFlag(WithFlag(WithFlag(p, CARRY, sum > 255),
                                       OVERFLOW, signed),
                              ZERO, result = 0),
                     NEGATIVE, result \div 128 = 1)]

\* C30: for every accumulator A, operand M and carry-in c, ADC leaves the
\* accumulator (A + M + c) mod 256, Carry set iff A + M + c > 0xFF, Overflow
\* set iff ((M xor result) & (result xor A) & 0x80) != 0, which is the case
\* exactly when A and M have one sign bit and the result the other, Zero set
\* iff the result is 0 and Negative set iff bit 7 of the result is 1, and
\* the other flags as they were.  Checked for all 131072 inputs as
\* add_reg_a computes them, and on every ADC with an immediate or zero-page
\* operand that the run loop executes.
C30_Adc ==
    /\ []((fetches = 0 /\ last.program = <<0>> /\ ~overflow_checks) =>
            \A a \in 0..255, d \in 0..255, c \in BOOLEAN :
               LET p == WithFlag(status_register, CARRY, c)
                   r == add_reg_a([Cur EXCEPT !.register_a = a,
                                              !.status_register = p], d)
                   result == (a + d + (IF c THEN 1 ELSE 0)) % 256
               IN  /\ r.register_a = AdcResult(a, d, p).register_a
                   /\ r.status_register = AdcResult(a, d, p).status_register
                   /\ Contains(r.status_register, OVERFLOW) <=>
                         BitAnd(BitAnd(BitXor(d, result), BitXor(result, a)), 128) # 0)
    /\ [][(Fetching /\ NextCode \in {105, 101}) =>
              LET d == IF NextCode = 105 THEN Operand ELSE m_read(Cur, Operand).val
              IN  /\ panic' = NoPanic
                  /\ register_a' = AdcResult(register_a, d, status_register).register_a
                  /\ status_register' =
                        AdcResult(register_a, d, status_register).status_register
                  /\ program_counter' = (program_counter + 2) % 65536
                  /\ UNCHANGED <<register_x, register_y, stack_pointer, memory,
                                 cpu_vram, prg_rom>>]_vars

\* ADC #0x50 has run with the accumulator at 0x50 and Carry clear: the
\* accumulator is 0xA0, Overflow and Negative are set, Carry and Zero clear
C30_Witness ==
    /\ panic = NoPanic
    /\ last.program = <<105, 80, 0>> /\ last.entry_a = 80 /\ fetches = 1
    /\ register_a = 160
    /\ Contains(status_register, OVERFLOW) /\ Contains(status_register, NEGATIVE)
    /\ ~Contains(status_register, CARRY) /\ ~Contains(status_register, ZERO)


\* C31: for every accumulator A, operand M and carry-in c, SBC leaves the
\* accumulator and the flags that ADC leaves for the operand M xor 0xFF:
\* the accumulator is (A - M - (1 - c)) mod 256 and Carry is set iff no
\* borrow occurred, A >= M + (1 - c).  Checked for all 131072 inputs as sbc
\* computes them on an immediate operand, and on every SBC with an
\* immediate or zero-page operand that the run loop executes.
C31_Sbc ==
    /\ []((fetches = 0 /\ last.program = <<0>> /\ ~overflow_checks) =>
            \A a \in 0..255, d \in 0..255, c \in BOOLEAN :
               LET p == WithFlag(status_register, CARRY, c)
                   borrow == IF c THEN 0 ELSE 1
                   r == sbc([Cur EXCEPT !.register_a = a,
                                        !.status_register = p,
                                        !.cpu_vram = Store(@, program_counter, d)],
                            "Immediate")
               IN  /\ r.panic = NoPanic
                   /\ r.register_a = AdcResult(a, BitXor(d, 255), p).register_a
                   /\ r.status_register =
                         AdcResult(a, BitXor(d, 255), p).status_register
                   /\ r.register_a = (a + 512 - d - borrow) % 256
                   /\ Contains(r.status_register, CARRY) <=> (a >= d + borrow))
    /\ [][(Fetching /\ NextCode \in {233, 229}) =>
              LET d == IF NextCode = 233 THEN Operand ELSE m_read(Cur, Operand).val
                  borrow == IF Contains(status_register, CARRY) THEN 0 ELSE 1
              IN  /\ panic' = NoPanic
                  /\ register_a' = (register_a + 512 - d - borrow) % 256
                  /\ status_register' =
                        AdcResult(register_a, BitXor(d, 255), status_register).status_register
                  /\ Contains(status_register', CARRY) <=> (register_a >= d + borrow)
                  /\ program_counter' = (program_counter + 2) % 65536
                  /\ UNCHANGED <<register_x, register_y, stack_pointer, memory,
                                 cpu_vram, prg_rom>>]_vars

\* SBC #0x01 has run with the accumulator at 0x00 and Carry set: the
\* accumulator is 0xFF, Negative is set and Carry is clear (a borrow)
C31_Witness ==
    /\ panic = NoPanic
    /\ last.program = <<233, 1, 0>> /\ last.entry_a = 0 /\ fetches = 1
    /\ observed # <<>>
    /\ register_a = 255
    /\ Contains(status_register, NEGATIVE) /\ ~Contains(status_register, CARRY)


\* the run loop is about to execute one of the shift or rotate opcodes in
\* codes, and the step leaves what the claim says: Carry is the bit shifted
\* out of the operand, the byte stored in the accumulator or in the
\* zero-page cell is the shifted operand with the vacated bit 0 (ASL, LSR)
\* or the former Carry (ROL, ROR), and Zero and Negative describe that byte
ShiftsAsClaimed(codes) ==
    (Fetching /\ NextCode \in codes) =>
        LET acc    == NextCode \in {10, 74, 42, 106}
            left   == NextCode \in {10, 42, 6, 38}
            rotate == NextCode \in {42, 106, 38, 102}
            d      == IF acc THEN register_a ELSE m_read(Cur, Operand).val
            c      == IF rotate /\ Contains(status_register, CARRY) THEN 1 ELSE 0
            out    == IF left THEN d \div 128 ELSE d % 2
            result == IF left THEN ((d * 2) % 256) + c ELSE (d \div 2) + (128 * c)
        IN  /\ panic' = NoPanic
            /\ Contains(status_register', CARRY) <=> out = 1
            /\ IF acc THEN register_a' = result
                      ELSE m_read(Cur', Operand).val = result
            /\ Contains(status_register', ZERO) <=> result = 0
            /\ Contains(status_register', NEGATIVE) <=> result \div 128 = 1

\* C32: for ASL, LSR, ROL and ROR, in accumulator mode and in memory mode,
\* Carry becomes the bit shifted out of the operand, the stored result is
\* the shifted value with the vacated bit 0 or the prior Carry, and Zero and
\* Negative are computed from the stored result.  Stated on every shift and
\* rotate of the accumulator (0x0A, 0x4A, 0x2A, 0x6A) and of a zero-page
\* byte (0x06, 0x46, 0x26, 0x66) that the run loop executes.
C32_Shifts == [][ShiftsAsClaimed({10, 74, 42, 106, 6, 70, 38, 102})]_vars


\* the address the claim gives for the IndirectY operand byte z and the
\* index y: the little-endian word in the zero-page cells z and
\* (z + 1) mod 256 of RAM, plus y, modulo 65536
IndirectYAddress(z, y) ==
    (Cell(cpu_vram, z) + 256 * Cell(cpu_vram, (z + 1) % 256) + y) % 65536

\* C33: in IndirectY mode with operand byte z and index Y the effective
\* address is ((read(z) | (read((z + 1) mod 256) << 8)) + Y) mod 65536: both
\* pointer bytes come from the zero page and Y is added to the 16-bit
\* pointer.  Checked for every z and Y as get_op_addr computes it, and on
\* every STA (z),Y that the run loop executes, which stores the accumulator
\* at that address.
C33_IndirectY ==
    /\ []((fetches = 0 /\ last.program = <<0>> /\ ~overflow_checks) =>
            \A z \in 0..255, y \in 0..255 :
               LET r == get_op_addr([Cur EXCEPT !.register_y = y,
                                                !.cpu_vram = Store(@, program_counter, z)],
                                    "IndirectY")
               IN  /\ r.m.panic = NoPanic
                   /\ r.val = IndirectYAddress(z, y))
    /\ [][(Fetching /\ NextCode = 145) =>
              LET w == m_write(Cur, IndirectYAddress(Operand, register_y), register_a)
              IN  /\ panic' = w.panic
                  /\ cpu_vram' = w.cpu_vram
                  /\ memory' = w.memory
                  /\ ppu' = w.ppu
                  /\ w.panic = NoPanic =>
                        program_counter' = (program_counter + 2) % 65536]_vars

\* LDY #0xFF and STA (0xFF),Y have run: the pointer 0x0BE6 is read from the
\* cells 0xFF and 0x00, and the accumulator 0x42 is stored at 0x0CE5, the
\* RAM cell 0x04E5
C33_Witness ==
    /\ panic = NoPanic
    /\ last.program = <<160, 255, 145, 255, 0>> /\ fetches = 2
    /\ Cell(cpu_vram, 255) = 230 /\ Cell(cpu_vram, 0) = 11
    /\ Cell(cpu_vram, 1253) = 66
    /\ \A i \in DOMAIN cpu_vram : i \notin 1536..1540 /\ i # 1253 =>
                                     cpu_vram[i] = DataImage[i]


\* the 16-bit operand of the instruction the run loop is about to fetch
Operand16 == Operand + 256 * m_read(Cur, (program_counter + 2) % 65536).val

\* C34: after JMP (0x4C) or JSR (0x20) with the 16-bit operand t the program
\* counter at the next fetch is t, also when t is the address of the
\* instruction's own first operand byte; the operand skip of
\* (byte length - 1) is added only after instructions that are not control
\* transfers.  Stated on every JMP and JSR that the run loop executes.
C34_JumpTarget ==
    [][(Fetching /\ NextCode \in {76, 32}) =>
          /\ panic' = NoPanic
          /\ program_counter' = Operand16]_vars



\* the memories of the PPU that a data write can reach, and the read buffer
PpuMemories(p) == <<p.chr_rom, p.vram, p.palette_table, p.oam_data, p.internal_buffer>>

\* C35: write_to_data with the address register in 0x0000-0x1FFF changes no
\* byte of graphics ROM, VRAM, palette, OAM or the read buffer, raises no
\* fatal error and advances the address register by the configured step, 1
\* or 32.  Checked for every address of the range and both steps on the
\* PPU as constructed, and on every data write at such an address that is
\* made.
C35_WriteToChrRom ==
    /\ [](steps = 0 =>
            \A a \in 0..8191, control \in ControlBytes :
               LET before == PointedAt(write_to_control(Cur, control), a)
                   w      == write_to_data(before, 102)
               IN  /\ Live(w)
                   /\ PpuMemories(w.ppu) = PpuMemories(ppu)
                   /\ AddressRegister_get(w.ppu.address) =
                         (a + (IF control = 4 THEN 32 ELSE 1)) % 16384)
    /\ [][(steps' # steps /\ last'.op = "write_to_data" /\ last'.addr \in 0..8191) =>
              /\ panic' = NoPanic
              /\ PpuMemories(ppu') = PpuMemories(ppu)
              /\ AddressRegister_get(ppu'.address) =
                    (last'.addr + (IF Contains(ppu.control, 4) THEN 32 ELSE 1)) % 16384
              /\ ppu'.control = ppu.control]_vars

\* 0x66 was written with the address register at 0x0505 and the step at 32:
\* the address register is at 0x0525 and the graphics ROM is as constructed
C35_Witness ==
    /\ panic = NoPanic
    /\ last.op = "write_to_data" /\ last.addr = 1285 /\ last.data = 102
    /\ Contains(ppu.control, VRAM_ADD_INCREMENT)
    /\ AddressRegister_get(ppu.address) = 1317
    /\ ChrByte(ppu.chr_rom, 1285) # 102


\* the status bytes with Break2 set and Break clear
LiveStatuses == { p \in 0..255 : Contains(p, BREAK2) /\ ~Contains(p, BREAK) }

\* C36: in every state reached from power-on or reset by executing
\* dispatched instructions the status register has Break2 (bit 5) set and
\* Break (bit 4) clear; PHP pushes a copy with both bits set and leaves the
\* status register as it is.  The first conjunct is the invariant on the
\* runs; the second checks that reset and every opcode of the table, run on
\* every status byte that satisfies the invariant, leave a status byte that
\* satisfies it; the third is PHP as the run loop dispatches it (at 0xFFFF
\* a build with overflow checks stops at the increment of the program
\* counter, before the dispatch).
C36_BreakBits ==
    /\ [](status_register \in LiveStatuses)
    /\ []((fetches = 0 /\ last.program = <<0>>) =>
            /\ reset(Cur).status_register \in LiveStatuses
            /\ \A code \in DOMAIN OPCODES_MAP, p \in LiveStatuses :
                  LET m0 == [Cur EXCEPT !.status_register = p]
                  IN  Decode(m0, [m |-> m0, val |-> code]).status_register
                         \in LiveStatuses)
    /\ [][(Fetching /\ NextCode = 8
                     /\ ~(overflow_checks /\ program_counter = 65535)) =>
              /\ panic' = NoPanic
              /\ Cell(cpu_vram', 256 + stack_pointer) = BitOr(status_register, 48)
              /\ stack_pointer' = (stack_pointer + 255) % 256
              /\ status_register' = status_register]_vars

\* PLP has pulled the byte 0xFF, which has Break set, and the status
\* register is 0xEF; or PHP has pushed 0x34 with the status register at 0x24
C36_Witness ==
    /\ panic = NoPanic /\ fetches = 1
    /\ \/ /\ last.program = <<40, 0>>
          /\ Cell(cpu_vram, stack_pointer) = 255
          /\ status_register = 239
       \/ /\ last.program = <<8, 104, 0>>
          /\ Cell(cpu_vram, 256 + ((stack_pointer + 1) % 256)) = 52
          /\ status_register = 36


\* C37: with an 8 KiB graphics ROM read_from_data and write_to_data
\* complete without a fault for every value 0x0000-0x3FFF of the address
\* register: an access in 0x2000-0x3EFF uses a VRAM index below 0x800 and an
\* access in 0x3F00-0x3FFF a palette index below 0x20.  Stated for every
\* address on the PPU as constructed, and on every data access that is made.
C37_DataAccessCompletes ==
    /\ [](steps = 0 =>
            \A a \in 0..16383 :
               /\ Live(WrittenAt(Cur, a, 102))
               /\ Live(read_from_data(PointedAt(Cur, a)).m))
    /\ [][(steps' # steps /\ last'.op \in {"write_to_data", "read_from_data"}) =>
              panic' = NoPanic]_vars


\* the address the claim gives for the IndirectX operand byte z and the
\* index x: the little-endian word in the zero-page cells p = (z + x) mod 256
\* and (p + 1) mod 256 of RAM
IndirectXAddress(z, x) ==
    LET p == (z + x) % 256
    IN  Cell(cpu_vram, p) + 256 * Cell(cpu_vram, (p + 1) % 256)

\* C38: in IndirectX mode with operand byte z and index X the pointer is
\* p = (z + X) mod 256 and both bytes of the effective address are fetched
\* from the zero page, the low byte at p and the high byte at
\* (p + 1) mod 256, also when p = 0xFF.  Stated for every z and X as
\* get_op_addr computes it, and on every STA (z,X) that the run loop
\* executes, which stores the accumulator at that address.
C38_IndirectX ==
    /\ []((fetches = 0 /\ last.program = <<0>> /\ ~overflow_checks) =>
            \A z \in 0..255, x \in 0..255 :
               LET r == get_op_addr([Cur EXCEPT !.register_x = x,
                                                !.cpu_vram = Store(@, program_counter, z)],
                                    "IndirectX")
               IN  /\ r.m.panic = NoPanic
                   /\ r.val = IndirectXAddress(z, x))
    /\ [][(Fetching /\ NextCode = 129) =>
              LET w == m_write(Cur, IndirectXAddress(Operand, register_x), register_a)
              IN  /\ panic' = w.panic
                  /\ cpu_vram' = w.cpu_vram
                  /\ memory' = w.memory
                  /\ ppu' = w.ppu]_vars

====
